---- MODULE Spec2Model ----
(***************************************************************************)
(* Model of the ML-agent plugin parser (mlops-plugin-parser.cc): the       *)
(* package-manager entry point INSTALL, the manifest loader               *)
(* _get_json_config and the per-section replay _parse_json, together with *)
(* the calls they make to the registration backend.                       *)
(*                                                                         *)
(* C strings are sequences of ASCII codes, so that the case-insensitive    *)
(* comparisons of the code are computed and not assumed.  JSON nodes are   *)
(* records of one shape [t, k, s, e]: t the node type, k the member name   *)
(* under which the node hangs in its parent object (empty otherwise), s    *)
(* the text of a string value, e the children of an array or an object.    *)
(***************************************************************************)
EXTENDS Integers, Sequences, FiniteSets, TLC

----------------------------------------------------------------------------
(* String literals of the source. *)
S_model == <<109, 111, 100, 101, 108>>  \* "model"
S_models == <<109, 111, 100, 101, 108, 115>>  \* "models"
S_pipeline == <<112, 105, 112, 101, 108, 105, 110, 101>>  \* "pipeline"
S_pipelines == <<112, 105, 112, 101, 108, 105, 110, 101, 115>>  \* "pipelines"
S_resource == <<114, 101, 115, 111, 117, 114, 99, 101>>  \* "resource"
S_resources == <<114, 101, 115, 111, 117, 114, 99, 101, 115>>  \* "resources"
S_name == <<110, 97, 109, 101>>  \* "name"
S_description == <<100, 101, 115, 99, 114, 105, 112, 116, 105, 111, 110>>  \* "description"
S_activate == <<97, 99, 116, 105, 118, 97, 116, 101>>  \* "activate"
S_path == <<112, 97, 116, 104>>  \* "path"
S_true == <<116, 114, 117, 101>>  \* "true"
S_rpk == <<114, 112, 107>>  \* "rpk"
S_res == <<114, 101, 115>>  \* "res"
S_global == <<103, 108, 111, 98, 97, 108>>  \* "global"
S_rpk_configdotjson == <<114, 112, 107, 95, 99, 111, 110, 102, 105, 103, 46, 106, 115, 111, 110>>  \* "rpk_config.json"
S_T == <<84>>  \* "T"
S_is_rpk == <<105, 115, 95, 114, 112, 107>>  \* "is_rpk"
S_pkg_id == <<112, 107, 103, 95, 105, 100>>  \* "pkg_id"
S_app_id == <<97, 112, 112, 95, 105, 100>>  \* "app_id"
S_res_type == <<114, 101, 115, 95, 116, 121, 112, 101>>  \* "res_type"
S_res_version == <<114, 101, 115, 95, 118, 101, 114, 115, 105, 111, 110>>  \* "res_version"

(* Strings that occur in the inputs only: manifests and package metadata. *)
S_Model == <<77, 111, 100, 101, 108>>  \* "Model"
S_MODELS == <<77, 79, 68, 69, 76, 83>>  \* "MODELS"
S_mOdEl == <<109, 79, 100, 69, 108>>  \* "mOdEl"
S_PipeLines == <<80, 105, 112, 101, 76, 105, 110, 101, 115>>  \* "PipeLines"
S_RESOURCES == <<82, 69, 83, 79, 85, 82, 67, 69, 83>>  \* "RESOURCES"
S_unknown == <<117, 110, 107, 110, 111, 119, 110>>  \* "unknown"
S_mode == <<109, 111, 100, 101>>  \* "mode"
S_modelx == <<109, 111, 100, 101, 108, 120>>  \* "modelx"
S_a == <<97>>  \* "a"
S_b == <<98>>  \* "b"
S_c == <<99>>  \* "c"
S_sla == <<47, 97>>  \* "/a"
S_slb == <<47, 98>>  \* "/b"
S_slc == <<47, 99>>  \* "/c"
S_d == <<100>>  \* "d"
S_p == <<112>>  \* "p"
S_q == <<113>>  \* "q"
S_slx == <<47, 120>>  \* "/x"
S_sly == <<47, 121>>  \* "/y"
S_slz == <<47, 122>>  \* "/z"
S_True == <<84, 114, 117, 101>>  \* "True"
S_TRUE == <<84, 82, 85, 69>>  \* "TRUE"
S_tRuE == <<116, 82, 117, 69>>  \* "tRuE"
S_false == <<102, 97, 108, 115, 101>>  \* "false"
S_tru == <<116, 114, 117>>  \* "tru"
S_truex == <<116, 114, 117, 101, 120>>  \* "truex"
S_RPK == <<82, 80, 75>>  \* "RPK"
S_tpk == <<116, 112, 107>>  \* "tpk"
S_slr == <<47, 114>>  \* "/r"
S_slo == <<47, 111>>  \* "/o"
S_t == <<116>>  \* "t"
S_1 == <<49>>  \* "1"
S_pkg == <<112, 107, 103>>  \* "pkg"
S_app == <<97, 112, 112>>  \* "app"

(* The null pointer, of the same shape as a string and distinct from all. *)
NULL == <<-1>>
EmptyStr == <<>>

----------------------------------------------------------------------------
(* GLib string functions. *)

g_ascii_tolower(c) == IF c \in 65..90 THEN c + 32 ELSE c

(* The byte at 0-based offset i of the NUL-terminated string s. *)
ByteAt(s, i) == IF i < Len(s) THEN s[i + 1] ELSE 0

RECURSIVE StrCaseCmpFrom(_, _, _)
StrCaseCmpFrom(s1, s2, i) ==
  IF ByteAt(s1, i) # 0 /\ ByteAt(s2, i) # 0
    THEN LET c1 == g_ascii_tolower(ByteAt(s1, i))
             c2 == g_ascii_tolower(ByteAt(s2, i))
         IN  IF c1 # c2 THEN c1 - c2 ELSE StrCaseCmpFrom(s1, s2, i + 1)
    ELSE ByteAt(s1, i) - ByteAt(s2, i)

(* Mutation of g_ascii_strcasecmp: the comparison minds the case (strcmp). *)
g_ascii_strcasecmp_sensitive(s1, s2) ==
  IF s1 = NULL \/ s2 = NULL THEN 0
  ELSE IF s1 = s2 THEN 0 ELSE 1

g_ascii_strcasecmp(s1, s2) ==
  IF s1 = NULL \/ s2 = NULL THEN 0 ELSE StrCaseCmpFrom(s1, s2, 0)

RECURSIVE StrCmpFrom(_, _, _)
StrCmpFrom(s1, s2, i) ==
  IF ByteAt(s1, i) # ByteAt(s2, i) THEN ByteAt(s1, i) - ByteAt(s2, i)
  ELSE IF ByteAt(s1, i) = 0 THEN 0 ELSE StrCmpFrom(s1, s2, i + 1)

(* Mutation of g_strcmp0: the comparison ignores the case. *)
g_strcmp0_nocase(s1, s2) ==
  IF s1 = NULL THEN (IF s2 = NULL THEN 0 ELSE -1)
  ELSE IF s2 = NULL THEN 1 ELSE StrCaseCmpFrom(s1, s2, 0)

g_strcmp0(s1, s2) ==
  IF s1 = NULL THEN (IF s2 = NULL THEN 0 ELSE -1)
  ELSE IF s2 = NULL THEN 1 ELSE StrCmpFrom(s1, s2, 0)

----------------------------------------------------------------------------
(* JSON nodes (json-glib). *)

NoKey == <<>>
Node(t, s, e) == [t |-> t, k |-> NoKey, s |-> s, e |-> e]

(* A null JsonNode*, JsonObject* or JsonArray*. *)
NoNode == Node("none", EmptyStr, <<>>)

JString(s) == Node("string", s, <<>>)
JNumber == Node("number", EmptyStr, <<>>)
JNull == Node("null", EmptyStr, <<>>)
JArray(elems) == Node("array", EmptyStr, elems)
JObject(members) == Node("object", EmptyStr, members)
Member(key, node) == [node EXCEPT !.k = key]

JSON_NODE_HOLDS_ARRAY(node) == node.t = "array"
json_node_get_array(node) == IF node.t = "array" THEN node ELSE NoNode
json_node_get_object(node) == IF node.t = "object" THEN node ELSE NoNode
json_node_get_string(node) == IF node.t = "string" THEN node.s ELSE NULL
json_array_get_length(array) == Len(array.e)

json_array_get_object_element(array, index) ==
  json_node_get_object(array.e[index + 1])

json_array_get_string_element(array, index) ==
  json_node_get_string(array.e[index + 1])

json_object_get_member(object, member_name) ==
  IF object = NoNode THEN NoNode
  ELSE LET hits == {j \in 1..Len(object.e) : object.e[j].k = member_name}
       IN  IF hits = {} THEN NoNode ELSE object.e[CHOOSE j \in hits : TRUE]

json_object_get_string_member(object, member_name) ==
  json_node_get_string(json_object_get_member(object, member_name))

(* The member names of an object, in the order of the document; of a null  *)
(* object, which is what json_node_get_object makes of a root that is no   *)
(* object, the empty list.                                                 *)
json_object_get_members(object) ==
  IF object = NoNode THEN <<>>
  ELSE [j \in 1..Len(object.e) |-> object.e[j].k]

----------------------------------------------------------------------------
(* The file system and the JSON parser, as _get_json_config sees them. *)

File(kind, readable, syntax, doc) ==
  [kind |-> kind, readable |-> readable, syntax |-> syntax, doc |-> doc]

MissingFile == File("missing", FALSE, "invalid", NoNode)

(* g_file_test answers TRUE as soon as one of the tests asked for holds. *)
g_file_test(file, tests) ==
  \/ "G_FILE_TEST_EXISTS" \in tests /\ file.kind # "missing"
  \/ "G_FILE_TEST_IS_REGULAR" \in tests /\ file.kind = "regular"

(* Reading works on whatever open() and read() accept: not on a directory. *)
g_file_get_contents(file) ==
  file.kind \in {"regular", "fifo"} /\ file.readable

json_parser_load_from_data(file) == file.syntax # "invalid"

(* Empty or blank text loads without error and leaves no root node. *)
json_parser_get_root(file) ==
  IF file.syntax = "json" THEN file.doc ELSE NoNode

RECURSIVE JoinPath(_)
JoinPath(parts) ==
  IF Len(parts) = 0 THEN EmptyStr
  ELSE IF Len(parts) = 1 THEN parts[1]
  ELSE parts[1] \o <<47>> \o JoinPath(Tail(parts))

g_build_filename(parts) == JoinPath(parts)

----------------------------------------------------------------------------
(* _make_pkg_info: the pretty-printed JSON text of the application context. *)

Quoted(s) == <<34>> \o s \o <<34>>
PrettyMember(key, value) == <<32, 32>> \o Quoted(key) \o <<32, 58, 32>> \o Quoted(value)

(* Mutation of make_pkg_info: an absent appid is written as it is. *)
make_pkg_info_raw_appid(pkgid_, appid_, res_type_, res_version_) ==
  <<123, 10>>
    \o PrettyMember(S_is_rpk, S_T) \o <<44, 10>>
    \o PrettyMember(S_pkg_id, pkgid_) \o <<44, 10>>
    \o PrettyMember(S_app_id, appid_) \o <<44, 10>>
    \o PrettyMember(S_res_type, res_type_) \o <<44, 10>>
    \o PrettyMember(S_res_version, res_version_) \o <<10, 125>>

make_pkg_info(pkgid_, appid_, res_type_, res_version_) ==
  <<123, 10>>
    \o PrettyMember(S_is_rpk, S_T) \o <<44, 10>>
    \o PrettyMember(S_pkg_id, pkgid_) \o <<44, 10>>
    \o PrettyMember(S_app_id, IF appid_ # NULL THEN appid_ ELSE EmptyStr) \o <<44, 10>>
    \o PrettyMember(S_res_type, res_type_) \o <<44, 10>>
    \o PrettyMember(S_res_version, res_version_) \o <<10, 125>>

----------------------------------------------------------------------------
(* Calls to the registration backend, as recorded in the log. *)

Call(op, name, arg, active, desc, info) ==
  [op |-> op, name |-> name, arg |-> arg, active |-> active,
   desc |-> desc, app_info |-> info]

ml_agent_model_register(name, model, active, desc, info) ==
  Call("ml_agent_model_register", name, model, active, desc, info)

ml_agent_pipeline_set_description(name, pipe) ==
  Call("ml_agent_pipeline_set_description", name, pipe, FALSE, NULL, NULL)

ml_agent_resource_add(name, path, desc, info) ==
  Call("ml_agent_resource_add", name, path, FALSE, desc, info)

(* Status codes a backend call may return. *)
BackendRets == {0, -1}

MLSVC_JSON_MODEL == 0
MLSVC_JSON_PIPELINE == 1
MLSVC_JSON_RESOURCE == 2
MLSVC_JSON_MAX == 3

(* Results of a pkgmgrinfo query. *)
PmResults == {"PMINFO_R_OK", "PMINFO_R_ERROR"}

----------------------------------------------------------------------------
(* Inputs: package metadata, manifests and files.  The bounds: *)

MaxEntries == 2   \* longest array of entries under one key
MaxPaths == 2     \* longest array of paths in one resource entry
MaxMembers == 3   \* most top-level keys in one manifest

SeqsUpTo(S, n) == UNION {[1..k -> S] : k \in 0..n}

PkgTypes == {S_rpk, S_RPK, S_tpk}
RootPaths == {S_slr}
ResTypes == {S_t}
ResVersions == {S_1}
AppIds == {NULL, S_app}

S_manifest_path ==  \* "/r/res/global/t/rpk_config.json"
  <<47, 114, 47, 114, 101, 115, 47, 103, 108, 111, 98, 97, 108, 47, 116, 47, 114, 112, 107, 95, 99, 111, 110, 102, 105, 103, 46, 106, 115, 111, 110>>
S_decoy_path ==  \* "/r/rpk_config.json"
  <<47, 114, 47, 114, 112, 107, 95, 99, 111, 110, 102, 105, 103, 46, 106, 115, 111, 110>>

(* A member list holding key only when the value is present. *)
Field(key, value) == IF value = NoNode THEN <<>> ELSE <<Member(key, value)>>

ModelEntry(name, model, desc, activate) ==
  JObject(Field(S_name, name) \o Field(S_model, model)
            \o Field(S_description, desc) \o Field(S_activate, activate))

PipelineEntry(name, pipe) ==
  JObject(Field(S_name, name) \o Field(S_pipeline, pipe))

ResourceEntry(name, desc, paths) ==
  JObject(Field(S_name, name) \o Field(S_description, desc) \o Field(S_path, paths))

(* Entries that are complete for every category, and one for none. *)
EntryA ==
  JObject(<<Member(S_name, JString(S_a)), Member(S_model, JString(S_sla)),
            Member(S_pipeline, JString(S_p)), Member(S_path, JString(S_slx))>>)
EntryB ==
  JObject(<<Member(S_name, JString(S_b)), Member(S_model, JString(S_slb)),
            Member(S_description, JString(S_d)), Member(S_activate, JString(S_True)),
            Member(S_pipeline, JString(S_q)),
            Member(S_path, JArray(<<JString(S_sly), JString(S_slz)>>))>>)
EntryC ==
  JObject(<<Member(S_name, JString(S_c)), Member(S_model, JString(S_slc)),
            Member(S_activate, JString(S_false)), Member(S_pipeline, JString(S_p)),
            Member(S_path, JArray(<<JString(S_slx)>>))>>)
EntryBad == JObject(<<Member(S_description, JString(S_d))>>)

Manifest(members_) == JObject(members_)
OneSection(key, value) == Manifest(<<Member(key, value)>>)

(* Every combination of present, absent and non-string fields of a model. *)
StringOrNot(s) == {NoNode, JString(s), JNumber}
ActivateValues ==
  {NoNode, JNumber} \cup {JString(s) : s \in {S_true, S_True, S_TRUE, S_tRuE,
                                              S_false, S_tru, S_truex}}
ModelFieldManifests ==
  {OneSection(S_models, ModelEntry(n, m, d, a)) :
     n \in StringOrNot(S_a), m \in StringOrNot(S_sla), d \in StringOrNot(S_d),
     a \in ActivateValues}

PipelineFieldManifests ==
  {OneSection(S_pipeline, PipelineEntry(n, p)) :
     n \in StringOrNot(S_a), p \in StringOrNot(S_p)}

(* Resources: a path that is absent, a string, a number or an array. *)
PathElements == {JString(S_slx), JString(S_sly), JNumber}
PathValues ==
  {NoNode, JString(S_slx), JNumber}
    \cup {JArray(ps) : ps \in SeqsUpTo(PathElements, MaxPaths)}
ResourceFieldManifests ==
  {OneSection(S_resource, ResourceEntry(n, d, p)) :
     n \in StringOrNot(S_a), d \in {NoNode, JString(S_d)}, p \in PathValues}

(* Arrays of entries, some of them malformed, under one key of each category. *)
ArrayElements == {EntryA, EntryB, EntryBad, JNumber}
ArrayManifests ==
  {OneSection(key, JArray(es)) :
     key \in {S_models, S_pipelines, S_RESOURCES},
     es \in SeqsUpTo(ArrayElements, MaxEntries)}

(* Every spelling of a key, recognized or not. *)
RecognizedKeys ==
  {S_model, S_models, S_Model, S_MODELS, S_mOdEl, S_pipeline, S_pipelines,
   S_PipeLines, S_resource, S_resources, S_RESOURCES}
UnknownKeys == {S_unknown, S_mode, S_modelx}
KeyManifests ==
  {OneSection(key, value) :
     key \in RecognizedKeys \cup UnknownKeys,
     value \in {EntryA, JArray(<<EntryA, EntryB>>)}}

(* Several sections in every order, an unrecognized key among them. *)
OrderModelValues == {EntryA, JArray(<<EntryB, EntryC>>), JArray(<<EntryBad, EntryA>>)}
OrderOtherValues == {EntryA, JArray(<<EntryBad, EntryB>>)}
OrderMembers ==
  {Member(key, value) : key \in {S_model, S_MODELS}, value \in OrderModelValues}
    \cup {Member(key, value) : key \in {S_pipeline, S_resources, S_unknown},
                               value \in OrderOtherValues}
DistinctKeys(ms) == \A x, y \in 1..Len(ms) : ms[x].k = ms[y].k => x = y
OrderManifests ==
  {Manifest(ms) : ms \in {s \in SeqsUpTo(OrderMembers, MaxMembers) : DistinctKeys(s)}}

(* Documents whose top-level value is no object. *)
NonObjectDocs == {JArray(<<EntryA>>), JString(S_a), JNumber, JNull}

Manifests ==
  ModelFieldManifests \cup PipelineFieldManifests \cup ResourceFieldManifests
    \cup ArrayManifests \cup KeyManifests \cup OrderManifests

GoodManifest == OneSection(S_models, EntryA)

(* Files that hold a document, and files that cannot be read or parsed. *)
DocFiles == {File("regular", TRUE, "json", doc) : doc \in Manifests \cup NonObjectDocs}
OtherFiles ==
  {MissingFile,
   File("directory", TRUE, "json", GoodManifest),
   File("regular", FALSE, "json", GoodManifest),
   File("regular", TRUE, "invalid", NoNode),
   File("regular", TRUE, "empty", NoNode),
   File("fifo", TRUE, "json", GoodManifest),
   File("fifo", FALSE, "json", GoodManifest),
   File("fifo", TRUE, "invalid", NoNode)}
Files == DocFiles \cup OtherFiles

(* A file of the package that is not at the manifest's conventional path. *)
DecoyFile == File("regular", TRUE, "json", OneSection(S_models, EntryB))

(* The absent appId is tried on a few files, the present one on all. *)
MixedManifest ==
  Manifest(<<Member(S_models, EntryA), Member(S_pipelines, EntryA),
             Member(S_resources, EntryB)>>)
FewFiles ==
  OtherFiles
    \cup {File("regular", TRUE, "json", doc) : doc \in KeyManifests \cup {MixedManifest}}
Inputs == ({NULL} \X FewFiles) \cup ({S_app} \X Files)

----------------------------------------------------------------------------
VARIABLES
  pc,           \* the statement INSTALL, _get_json_config or _parse_json is at
  pkgid, appid, \* arguments of INSTALL
  fs,           \* the file system: path -> file
  handle,       \* the pkgmgrinfo handle: "none", "open" or "destroyed"
  pkg_type, root_path, res_type, res_version, \* locals of INSTALL
  app_info, json_file,
  json_string,  \* _get_json_config: the file whose text was read
  root,         \* _get_json_config: the top node of the parsed text
  iter,         \* _get_json_config: 0-based position in the member list
  config_ret,   \* the value _get_json_config returned
  node, json_type, \* arguments of the running _parse_json
  i, pidx,      \* _parse_json: the entry and the path being processed
  ret,          \* _parse_json: the status of the last backend call
  calls,        \* log: the backend calls issued, in order
  failed,       \* log: some backend call returned a non-zero status
  env_calls,    \* log: the pkgmgrinfo, file and parser functions called
  install_ret   \* the value INSTALL returned

VARIABLES
  invoked,      \* the entry point the package manager invoked, "none" before
  stack,        \* the entry points that are running, the innermost last
  trace,        \* log: the calls and returns of the entry points, in order
  retval        \* the value the entry point that returned last has returned

host == <<invoked, stack, trace, retval>>

VARIABLES
  state,            \* the lifecycle of the model module
  dpc,              \* the statement the daemon's thread is at, "loop" in no hook
  g_gdbus_instance, \* the module-wide service object
  handler_id,       \* handler_infos[k].handler_id, 0 while not attached
  probe_ret,        \* the value probe_model_module returned
  hooks,            \* log: the lifecycle hooks called, in order
  glib_calls,       \* log: the object, signal and export calls made by the hooks
  invoc,            \* the method invocation being handled
  requests,         \* log: the invocations dispatched, in order
  svcdb_calls,      \* log: the backend calls with what the backend answered
  responses         \* log: the completions of invocations, in order

daemon == <<state, dpc, g_gdbus_instance, handler_id, probe_ret, hooks, glib_calls,
            invoc, requests, svcdb_calls, responses>>

(* The service object: a skeleton that is exported or not, or no object. *)
NullInstance == [null |-> TRUE, exported |-> FALSE]
Skeleton(exported) == [null |-> FALSE, exported |-> exported]

(* The event handler list of the Model interface. *)
handler_infos_without_delete ==
  <<[signal_name |-> "DBUS_MODEL_I_HANDLER_REGISTER", cb |-> "gdbus_cb_model_register"],
    [signal_name |-> "DBUS_MODEL_I_HANDLER_UPDATE_DESCRIPTION",
     cb |-> "gdbus_cb_model_update_description"],
    [signal_name |-> "DBUS_MODEL_I_HANDLER_ACTIVATE", cb |-> "gdbus_cb_model_activate"],
    [signal_name |-> "DBUS_MODEL_I_HANDLER_GET", cb |-> "gdbus_cb_model_get"],
    [signal_name |-> "DBUS_MODEL_I_HANDLER_GET_ACTIVATED",
     cb |-> "gdbus_cb_model_get_activated"],
    [signal_name |-> "DBUS_MODEL_I_HANDLER_GET_ALL", cb |-> "gdbus_cb_model_get_all"]>>

handler_infos ==
  <<[signal_name |-> "DBUS_MODEL_I_HANDLER_REGISTER", cb |-> "gdbus_cb_model_register"],
    [signal_name |-> "DBUS_MODEL_I_HANDLER_UPDATE_DESCRIPTION",
     cb |-> "gdbus_cb_model_update_description"],
    [signal_name |-> "DBUS_MODEL_I_HANDLER_ACTIVATE", cb |-> "gdbus_cb_model_activate"],
    [signal_name |-> "DBUS_MODEL_I_HANDLER_GET", cb |-> "gdbus_cb_model_get"],
    [signal_name |-> "DBUS_MODEL_I_HANDLER_GET_ACTIVATED",
     cb |-> "gdbus_cb_model_get_activated"],
    [signal_name |-> "DBUS_MODEL_I_HANDLER_GET_ALL", cb |-> "gdbus_cb_model_get_all"],
    [signal_name |-> "DBUS_MODEL_I_HANDLER_DELETE", cb |-> "gdbus_cb_model_delete"]>>

ARRAY_SIZE(table) == Len(table)

(* A method invocation with its decoded arguments; those a method does not *)
(* take are NULL, 0 or FALSE.                                              *)
Invocation(id, method, cb, nm, pth, act, dsc, inf, ver, frc) ==
  [id |-> id, method |-> method, cb |-> cb, name |-> nm, path |-> pth,
   is_active |-> act, description |-> dsc, app_info |-> inf, version |-> ver,
   force |-> frc]
NoInvocation == Invocation(0, "none", "none", NULL, NULL, FALSE, NULL, NULL, 0, FALSE)

(* The daemon before its module registry has called any hook. *)
NoDaemon ==
  /\ state = "Unregistered"
  /\ dpc = "loop"
  /\ g_gdbus_instance = NullInstance
  /\ handler_id = [k \in 1..ARRAY_SIZE(handler_infos) |-> 0]
  /\ probe_ret = 0
  /\ hooks = <<>>
  /\ glib_calls = <<>>
  /\ invoc = NoInvocation
  /\ requests = <<>>
  /\ svcdb_calls = <<>>
  /\ responses = <<>>

vars == <<pc, pkgid, appid, fs, handle, pkg_type, root_path, res_type,
          res_version, app_info, json_file, json_string, root, iter,
          config_ret, node, json_type, i, pidx, ret, calls, failed, env_calls,
          install_ret, host, daemon>>

(* No entry point has been invoked through the package manager. *)
NoHost == invoked = "none" /\ stack = <<>> /\ trace = <<>> /\ retval = 0

inputs == <<pkgid, appid, fs>>
meta == <<pkg_type, root_path, res_type, res_version, app_info, json_file>>
config == <<json_string, root, iter>>
section == <<node, json_type, i, pidx>>
backend == <<ret, calls, failed>>

LookupFile(path) == IF path \in DOMAIN fs THEN fs[path] ELSE MissingFile

----------------------------------------------------------------------------
(* Locals that the code computes from the variables above. *)

object == json_node_get_object(root)
members == json_object_get_members(object)
member_name == members[iter + 1]

array == IF JSON_NODE_HOLDS_ARRAY(node) THEN json_node_get_array(node) ELSE NoNode
json_len == IF JSON_NODE_HOLDS_ARRAY(node) THEN json_array_get_length(array) ELSE 1

(* Mutation of entry: every iteration reads the first element. *)
entry_first_element ==
  IF array # NoNode THEN json_array_get_object_element(array, 0)
  ELSE json_node_get_object(node)

entry == IF array # NoNode THEN json_array_get_object_element(array, i)
         ELSE json_node_get_object(node)

entry_name == json_object_get_string_member(entry, S_name)
entry_model == json_object_get_string_member(entry, S_model)
entry_desc == json_object_get_string_member(entry, S_description)
entry_activate == json_object_get_string_member(entry, S_activate)
entry_pipe == json_object_get_string_member(entry, S_pipeline)

IsActive(activate) == activate # NULL /\ g_ascii_strcasecmp(activate, S_true) = 0

path_node == json_object_get_member(entry, S_path)
path_array == IF JSON_NODE_HOLDS_ARRAY(path_node) THEN json_node_get_array(path_node)
              ELSE NoNode
path_len == IF JSON_NODE_HOLDS_ARRAY(path_node)
              THEN (IF path_array # NoNode THEN json_array_get_length(path_array) ELSE 0)
              ELSE 1
(* Mutation of path: every iteration reads the first element. *)
path_first_element ==
  IF path_array # NoNode THEN json_array_get_string_element(path_array, 0)
  ELSE json_node_get_string(path_node)

path == IF path_array # NoNode THEN json_array_get_string_element(path_array, pidx)
        ELSE json_node_get_string(path_node)

OrEmpty(s) == IF s # NULL THEN s ELSE EmptyStr

(* The category a top-level key selects, MLSVC_JSON_MAX when none. *)
KeyType(name) ==
  IF g_ascii_strcasecmp(name, S_model) = 0 \/ g_ascii_strcasecmp(name, S_models) = 0
    THEN MLSVC_JSON_MODEL
  ELSE IF g_ascii_strcasecmp(name, S_pipeline) = 0
          \/ g_ascii_strcasecmp(name, S_pipelines) = 0
    THEN MLSVC_JSON_PIPELINE
  ELSE IF g_ascii_strcasecmp(name, S_resource) = 0
          \/ g_ascii_strcasecmp(name, S_resources) = 0
    THEN MLSVC_JSON_RESOURCE
  ELSE MLSVC_JSON_MAX

----------------------------------------------------------------------------
(* PKGMGR_MDPARSER_PLUGIN_INSTALL *)

(* Mutation of InstallReturn: every early return reports success. *)
InstallReturn_success(value, called) ==
  /\ install_ret' = 0
  /\ env_calls' = env_calls \o called
  /\ pc' = "returned"

InstallReturn(value, called) ==
  /\ install_ret' = value
  /\ env_calls' = env_calls \o called
  /\ pc' = "returned"

(* An entry of env_calls: the function called and what it answered. *)
Env(fn, result) == <<fn, result>>

Destroy == Env("pkgmgrinfo_pkginfo_destroy_pkginfo", "void")

GetPkginfo ==
  /\ pc = "INSTALL"
  /\ \E r \in PmResults :
       IF r # "PMINFO_R_OK"
         THEN /\ InstallReturn(-1, <<Env("pkgmgrinfo_pkginfo_get_pkginfo", r)>>)
              /\ UNCHANGED handle
         ELSE /\ handle' = "open"
              /\ env_calls' = Append(env_calls, Env("pkgmgrinfo_pkginfo_get_pkginfo", r))
              /\ pc' = "get_type"
              /\ UNCHANGED install_ret
  /\ UNCHANGED <<inputs, host, daemon, meta, config, config_ret, section, backend>>

GetType ==
  /\ pc = "get_type"
  /\ \E r \in PmResults, type \in PkgTypes :
       IF r # "PMINFO_R_OK"
         THEN /\ InstallReturn(-1, <<Env("pkgmgrinfo_pkginfo_get_type", r), Destroy>>)
              /\ handle' = "destroyed"
              /\ UNCHANGED pkg_type
         ELSE /\ pkg_type' = type
              /\ IF g_strcmp0(type, S_rpk) # 0
                   THEN /\ InstallReturn(0, <<Env("pkgmgrinfo_pkginfo_get_type", r), Destroy>>)
                        /\ handle' = "destroyed"
                   ELSE /\ env_calls' = Append(env_calls, Env("pkgmgrinfo_pkginfo_get_type", r))
                        /\ pc' = "get_root_path"
                        /\ UNCHANGED <<handle, install_ret>>
  /\ UNCHANGED <<inputs, host, daemon, root_path, res_type, res_version, app_info, json_file,
                 config, config_ret, section, backend>>

GetRootPath ==
  /\ pc = "get_root_path"
  /\ \E r \in PmResults, value \in RootPaths :
       IF r # "PMINFO_R_OK"
         THEN /\ InstallReturn(-1, <<Env("pkgmgrinfo_pkginfo_get_root_path", r), Destroy>>)
              /\ handle' = "destroyed"
              /\ UNCHANGED root_path
         ELSE /\ root_path' = value
              /\ env_calls' = Append(env_calls, Env("pkgmgrinfo_pkginfo_get_root_path", r))
              /\ pc' = "get_res_type"
              /\ UNCHANGED <<handle, install_ret>>
  /\ UNCHANGED <<inputs, host, daemon, pkg_type, res_type, res_version, app_info, json_file,
                 config, config_ret, section, backend>>

GetResType ==
  /\ pc = "get_res_type"
  /\ \E r \in PmResults, value \in ResTypes :
       IF r # "PMINFO_R_OK"
         THEN /\ InstallReturn(-1, <<Env("pkgmgrinfo_pkginfo_get_res_type", r), Destroy>>)
              /\ handle' = "destroyed"
              /\ UNCHANGED res_type
         ELSE /\ res_type' = value
              /\ env_calls' = Append(env_calls, Env("pkgmgrinfo_pkginfo_get_res_type", r))
              /\ pc' = "get_res_version"
              /\ UNCHANGED <<handle, install_ret>>
  /\ UNCHANGED <<inputs, host, daemon, pkg_type, root_path, res_version, app_info, json_file,
                 config, config_ret, section, backend>>

(* Mutation of GetResVersion: the failure branch returns without releasing *)
(* the handle.                                                             *)
GetResVersion_leaks ==
  /\ pc = "get_res_version"
  /\ \E r \in PmResults, value \in ResVersions :
       IF r # "PMINFO_R_OK"
         THEN /\ InstallReturn(-1, <<Env("pkgmgrinfo_pkginfo_get_res_version", r)>>)
              /\ UNCHANGED <<handle, res_version>>
         ELSE /\ res_version' = value
              /\ env_calls' = Append(env_calls, Env("pkgmgrinfo_pkginfo_get_res_version", r))
              /\ pc' = "make_pkg_info"
              /\ UNCHANGED <<handle, install_ret>>
  /\ UNCHANGED <<inputs, host, daemon, pkg_type, root_path, res_type, app_info, json_file,
                 config, config_ret, section, backend>>

GetResVersion ==
  /\ pc = "get_res_version"
  /\ \E r \in PmResults, value \in ResVersions :
       IF r # "PMINFO_R_OK"
         THEN /\ InstallReturn(-1, <<Env("pkgmgrinfo_pkginfo_get_res_version", r), Destroy>>)
              /\ handle' = "destroyed"
              /\ UNCHANGED res_version
         ELSE /\ res_version' = value
              /\ env_calls' = Append(env_calls, Env("pkgmgrinfo_pkginfo_get_res_version", r))
              /\ pc' = "make_pkg_info"
              /\ UNCHANGED <<handle, install_ret>>
  /\ UNCHANGED <<inputs, host, daemon, pkg_type, root_path, res_type, app_info, json_file,
                 config, config_ret, section, backend>>

(* Serialize the application context and build the manifest's path. *)
MakePkgInfo ==
  /\ pc = "make_pkg_info"
  /\ app_info' = make_pkg_info(pkgid, appid, res_type, res_version)
  /\ json_file' = g_build_filename(
                    <<root_path, S_res, S_global, res_type, S_rpk_configdotjson>>)
  /\ env_calls' = Append(env_calls, Env("_make_pkg_info", "string"))
  /\ pc' = "file_test"
  /\ UNCHANGED <<inputs, host, daemon, handle, pkg_type, root_path, res_type, res_version,
                 config, config_ret, section, backend, install_ret>>

(* Mutation of InstallFinish: the parser's answer is not looked at. *)
InstallFinish_ignored ==
  /\ pc = "config_returned"
  /\ InstallReturn(0, <<Destroy>>)
  /\ handle' = "destroyed"
  /\ UNCHANGED <<inputs, host, daemon, meta, config, config_ret, section, backend>>

(* _get_json_config has returned: INSTALL releases the handle and returns. *)
InstallFinish ==
  /\ pc = "config_returned"
  /\ InstallReturn(IF config_ret THEN 0 ELSE -1, <<Destroy>>)
  /\ handle' = "destroyed"
  /\ UNCHANGED <<inputs, host, daemon, meta, config, config_ret, section, backend>>

----------------------------------------------------------------------------
(* _get_json_config *)

ConfigReturn(value, called) ==
  /\ config_ret' = value
  /\ env_calls' = env_calls \o called
  /\ pc' = "config_returned"

FileTest ==
  /\ pc = "file_test"
  /\ IF ~g_file_test(LookupFile(json_file),
                     {"G_FILE_TEST_EXISTS", "G_FILE_TEST_IS_REGULAR"})
       THEN ConfigReturn(FALSE, <<Env("g_file_test", "FALSE")>>)
       ELSE /\ env_calls' = Append(env_calls, Env("g_file_test", "TRUE"))
            /\ pc' = "get_contents"
            /\ UNCHANGED config_ret
  /\ UNCHANGED <<inputs, host, daemon, handle, meta, config, section, backend, install_ret>>

GetContents ==
  /\ pc = "get_contents"
  /\ IF ~g_file_get_contents(LookupFile(json_file))
       THEN /\ ConfigReturn(FALSE, <<Env("g_file_get_contents", "FALSE")>>)
            /\ UNCHANGED json_string
       ELSE /\ json_string' = LookupFile(json_file)
            /\ env_calls' = Append(env_calls, Env("g_file_get_contents", "TRUE"))
            /\ pc' = "load_from_data"
            /\ UNCHANGED config_ret
  /\ UNCHANGED <<inputs, host, daemon, handle, meta, root, iter, section, backend, install_ret>>

(* json_parser_load_from_data, json_parser_get_root and the member list. *)
LoadFromData ==
  /\ pc = "load_from_data"
  /\ IF ~json_parser_load_from_data(json_string)
       THEN /\ ConfigReturn(FALSE, <<Env("json_parser_load_from_data", "FALSE")>>)
            /\ UNCHANGED <<root, iter>>
       ELSE IF json_parser_get_root(json_string) = NoNode
         THEN /\ ConfigReturn(FALSE, <<Env("json_parser_load_from_data", "TRUE"),
                                       Env("json_parser_get_root", "NULL")>>)
              /\ UNCHANGED <<root, iter>>
         ELSE /\ root' = json_parser_get_root(json_string)
              /\ iter' = 0
              /\ env_calls' = env_calls \o <<Env("json_parser_load_from_data", "TRUE"),
                                             Env("json_parser_get_root", "node")>>
              /\ pc' = "members"
              /\ UNCHANGED config_ret
  /\ UNCHANGED <<inputs, host, daemon, handle, meta, json_string, section, backend, install_ret>>

(* The list is exhausted: the manifest was accepted. *)
MembersEnd ==
  /\ pc = "members"
  /\ iter >= Len(members)
  /\ ConfigReturn(TRUE, <<>>)
  /\ UNCHANGED <<inputs, host, daemon, handle, meta, config, section, backend, install_ret>>

(* A recognized key: enter _parse_json on its value. *)
MemberSection ==
  /\ pc = "members"
  /\ iter < Len(members)
  /\ KeyType(member_name) # MLSVC_JSON_MAX
  /\ node' = json_object_get_member(object, member_name)
  /\ json_type' = KeyType(member_name)
  /\ i' = 0
  /\ pc' = "entries"
  /\ UNCHANGED <<inputs, host, daemon, handle, meta, config, config_ret, pidx, backend,
                 env_calls, install_ret>>

(* Mutation of MemberUnknown: an unrecognized key is passed over. *)
MemberUnknown_ignored ==
  /\ pc = "members"
  /\ iter < Len(members)
  /\ KeyType(member_name) = MLSVC_JSON_MAX
  /\ iter' = iter + 1
  /\ UNCHANGED <<pc, inputs, host, daemon, handle, meta, json_string, root, config_ret, section,
                 backend, env_calls, install_ret>>

MemberUnknown ==
  /\ pc = "members"
  /\ iter < Len(members)
  /\ KeyType(member_name) = MLSVC_JSON_MAX
  /\ ConfigReturn(FALSE, <<>>)
  /\ UNCHANGED <<inputs, host, daemon, handle, meta, config, section, backend, install_ret>>

----------------------------------------------------------------------------
(* _parse_json.  The section type is always one of the three categories, so *)
(* the default branch of the switch is never taken and has no action.       *)

(* Mutation of Issue: a call that failed is issued once more. *)
Issue_retry(call, r) ==
  /\ calls' = (IF r # 0 THEN calls \o <<call, call>> ELSE Append(calls, call))
  /\ failed' = (failed \/ r # 0)
  /\ ret' = r

Issue(call, r) ==
  /\ calls' = Append(calls, call)
  /\ failed' = (failed \/ r # 0)
  /\ ret' = r

NextEntry ==
  /\ i' = i + 1
  /\ pc' = "entries"

(* Mutation of SkipEntry: a malformed entry ends the section (return). *)
SkipEntry_return ==
  /\ i' = json_len
  /\ pc' = "entries"

(* continue: a malformed entry is logged and the loop goes on. *)
SkipEntry == NextEntry

(* All entries of the section are done: back to the member list. *)
EntriesEnd ==
  /\ pc = "entries"
  /\ i >= json_len
  /\ iter' = iter + 1
  /\ pc' = "members"
  /\ UNCHANGED <<inputs, host, daemon, handle, meta, json_string, root, config_ret, section,
                 backend, env_calls, install_ret>>

ModelSkip ==
  /\ pc = "entries" /\ i < json_len /\ json_type = MLSVC_JSON_MODEL
  /\ entry_name = NULL \/ entry_model = NULL
  /\ SkipEntry
  /\ UNCHANGED <<inputs, host, daemon, handle, meta, config, config_ret, node, json_type, pidx,
                 backend, env_calls, install_ret>>

ModelRegister ==
  /\ pc = "entries" /\ i < json_len /\ json_type = MLSVC_JSON_MODEL
  /\ ~(entry_name = NULL \/ entry_model = NULL)
  /\ \E r \in BackendRets :
       Issue(ml_agent_model_register(entry_name, entry_model,
               IsActive(entry_activate), OrEmpty(entry_desc), OrEmpty(app_info)), r)
  /\ NextEntry
  /\ UNCHANGED <<inputs, host, daemon, handle, meta, config, config_ret, node, json_type, pidx,
                 env_calls, install_ret>>

PipelineSkip ==
  /\ pc = "entries" /\ i < json_len /\ json_type = MLSVC_JSON_PIPELINE
  /\ entry_name = NULL \/ entry_pipe = NULL
  /\ SkipEntry
  /\ UNCHANGED <<inputs, host, daemon, handle, meta, config, config_ret, node, json_type, pidx,
                 backend, env_calls, install_ret>>

PipelineSetDescription ==
  /\ pc = "entries" /\ i < json_len /\ json_type = MLSVC_JSON_PIPELINE
  /\ ~(entry_name = NULL \/ entry_pipe = NULL)
  /\ \E r \in BackendRets :
       Issue(ml_agent_pipeline_set_description(entry_name, entry_pipe), r)
  /\ NextEntry
  /\ UNCHANGED <<inputs, host, daemon, handle, meta, config, config_ret, node, json_type, pidx,
                 env_calls, install_ret>>

(* A resource without a name, or whose path is an empty array. *)
ResourceSkip ==
  /\ pc = "entries" /\ i < json_len /\ json_type = MLSVC_JSON_RESOURCE
  /\ entry_name = NULL \/ path_len = 0
  /\ SkipEntry
  /\ UNCHANGED <<inputs, host, daemon, handle, meta, config, config_ret, node, json_type, pidx,
                 backend, env_calls, install_ret>>

ResourcePaths ==
  /\ pc = "entries" /\ i < json_len /\ json_type = MLSVC_JSON_RESOURCE
  /\ ~(entry_name = NULL \/ path_len = 0)
  /\ pidx' = 0
  /\ pc' = "paths"
  /\ UNCHANGED <<inputs, host, daemon, handle, meta, config, config_ret, node, json_type, i,
                 backend, env_calls, install_ret>>

PathSkip ==
  /\ pc = "paths" /\ pidx < path_len
  /\ path = NULL
  /\ pidx' = pidx + 1
  /\ UNCHANGED <<pc, inputs, host, daemon, handle, meta, config, config_ret, node, json_type, i,
                 backend, env_calls, install_ret>>

PathAdd ==
  /\ pc = "paths" /\ pidx < path_len
  /\ path # NULL
  /\ \E r \in BackendRets :
       Issue(ml_agent_resource_add(entry_name, path, OrEmpty(entry_desc),
               OrEmpty(app_info)), r)
  /\ pidx' = pidx + 1
  /\ UNCHANGED <<pc, inputs, host, daemon, handle, meta, config, config_ret, node, json_type, i,
                 env_calls, install_ret>>

PathsEnd ==
  /\ pc = "paths" /\ pidx >= path_len
  /\ NextEntry
  /\ UNCHANGED <<inputs, host, daemon, handle, meta, config, config_ret, node, json_type, pidx,
                 backend, env_calls, install_ret>>

----------------------------------------------------------------------------
Init ==
  /\ pc = "INSTALL"
  /\ pkgid = S_pkg
  /\ \E in \in Inputs :
       /\ appid = in[1]
       /\ fs = (S_manifest_path :> in[2]) @@ (S_decoy_path :> DecoyFile)
  /\ handle = "none"
  /\ pkg_type = NULL /\ root_path = NULL /\ res_type = NULL /\ res_version = NULL
  /\ app_info = NULL /\ json_file = NULL
  /\ json_string = MissingFile
  /\ root = NoNode
  /\ iter = 0
  /\ config_ret = FALSE
  /\ node = NoNode
  /\ json_type = MLSVC_JSON_MAX
  /\ i = 0 /\ pidx = 0
  /\ ret = 0
  /\ calls = <<>>
  /\ failed = FALSE
  /\ env_calls = <<>>
  /\ install_ret = 0
  /\ NoHost
  /\ NoDaemon

Next ==
  \/ GetPkginfo \/ GetType \/ GetRootPath \/ GetResType \/ GetResVersion
  \/ MakePkgInfo \/ InstallFinish
  \/ FileTest \/ GetContents \/ LoadFromData
  \/ MembersEnd \/ MemberSection \/ MemberUnknown
  \/ EntriesEnd \/ ModelSkip \/ ModelRegister \/ PipelineSkip
  \/ PipelineSetDescription \/ ResourceSkip \/ ResourcePaths
  \/ PathSkip \/ PathAdd \/ PathsEnd

Spec == Init /\ [][Next]_vars

----------------------------------------------------------------------------
(* The entry points the package manager invokes: each is a function of     *)
(* (pkgid, appid, metadata) that may call another one and use its result.  *)

EntryPoints ==
  {"INSTALL", "UNINSTALL", "UPGRADE", "RECOVERINSTALL", "RECOVERUPGRADE",
   "RECOVERUNINSTALL", "CLEAN", "UNDO"}

(* A running entry point: its arguments and the statement it is at. *)
Frame(fn, p, a) == [fn |-> fn, pkgid |-> p, appid |-> a, at |-> "entered"]
CallEvent(fn, p, a) == [ev |-> "call", fn |-> fn, pkgid |-> p, appid |-> a, value |-> 0]
ReturnEvent(fn, p, a, v) == [ev |-> "return", fn |-> fn, pkgid |-> p, appid |-> a, value |-> v]

Top == stack[Len(stack)]
Running(fn, at) == stack # <<>> /\ Top.fn = fn /\ Top.at = at

(* The callee starts with the arguments it was given; INSTALL binds them. *)
Enter(fn, p, a) ==
  /\ trace' = Append(trace, CallEvent(fn, p, a))
  /\ IF fn = "INSTALL"
       THEN pc' = "INSTALL" /\ pkgid' = p /\ appid' = a
       ELSE UNCHANGED <<pc, pkgid, appid>>
  /\ UNCHANGED <<fs, handle, meta, config, config_ret, section, backend,
                 env_calls, install_ret, daemon>>

(* The package manager invokes one entry point. *)
HostInvoke ==
  /\ invoked = "none"
  /\ \E fn \in EntryPoints, a \in AppIds :
       /\ invoked' = fn
       /\ stack' = <<Frame(fn, S_pkg, a)>>
       /\ Enter(fn, S_pkg, a)
  /\ UNCHANGED retval

(* The running entry point calls fn with its own arguments. *)
CallEntryPoint(fn, at) ==
  /\ stack' = [stack EXCEPT ![Len(stack)].at = at]
                \o <<Frame(fn, Top.pkgid, Top.appid)>>
  /\ Enter(fn, Top.pkgid, Top.appid)
  /\ UNCHANGED <<invoked, retval>>

ReturnFromEntryPoint(value) ==
  /\ stack' = SubSeq(stack, 1, Len(stack) - 1)
  /\ retval' = value
  /\ trace' = Append(trace, ReturnEvent(Top.fn, Top.pkgid, Top.appid, value))
  /\ UNCHANGED <<pc, inputs, handle, meta, config, config_ret, section, backend,
                 env_calls, install_ret, daemon, invoked>>

(* INSTALL has reached one of its return statements. *)
InstallReturned ==
  /\ Running("INSTALL", "entered")
  /\ pc = "returned"
  /\ ReturnFromEntryPoint(install_ret)

PKGMGR_MDPARSER_PLUGIN_UNINSTALL ==
  /\ Running("UNINSTALL", "entered")
  /\ ReturnFromEntryPoint(0)

(* Mutation of UpgradeUninstall: the uninstall step is left out. *)
UpgradeUninstall_skipped ==
  /\ Running("UPGRADE", "entered")
  /\ stack' = [stack EXCEPT ![Len(stack)].at = "uninstalled"]
  /\ UNCHANGED <<pc, inputs, handle, meta, config, config_ret, section, backend,
                 env_calls, install_ret, daemon, invoked, trace, retval>>

UpgradeUninstall ==
  /\ Running("UPGRADE", "entered")
  /\ CallEntryPoint("UNINSTALL", "uninstalled")

UpgradeInstall ==
  /\ Running("UPGRADE", "uninstalled")
  /\ CallEntryPoint("INSTALL", "installed")

UpgradeReturn ==
  /\ Running("UPGRADE", "installed")
  /\ ReturnFromEntryPoint(0)

RecoverInstallCall ==
  /\ Running("RECOVERINSTALL", "entered")
  /\ CallEntryPoint("UNINSTALL", "called")

RecoverInstallReturn ==
  /\ Running("RECOVERINSTALL", "called")
  /\ ReturnFromEntryPoint(retval)

RecoverUpgradeCall ==
  /\ Running("RECOVERUPGRADE", "entered")
  /\ CallEntryPoint("UPGRADE", "called")

RecoverUpgradeReturn ==
  /\ Running("RECOVERUPGRADE", "called")
  /\ ReturnFromEntryPoint(retval)

RecoverUninstallCall ==
  /\ Running("RECOVERUNINSTALL", "entered")
  /\ CallEntryPoint("INSTALL", "called")

(* Mutation of RecoverUninstallReturn: the result of INSTALL is dropped. *)
RecoverUninstallReturn_zero ==
  /\ Running("RECOVERUNINSTALL", "called")
  /\ ReturnFromEntryPoint(0)

RecoverUninstallReturn ==
  /\ Running("RECOVERUNINSTALL", "called")
  /\ ReturnFromEntryPoint(retval)

PKGMGR_MDPARSER_PLUGIN_CLEAN ==
  /\ Running("CLEAN", "entered")
  /\ ReturnFromEntryPoint(0)

PKGMGR_MDPARSER_PLUGIN_UNDO ==
  /\ Running("UNDO", "entered")
  /\ ReturnFromEntryPoint(0)

(* The packages the entry points are invoked on: every kind of unusable    *)
(* file, every spelling of a key, and entries of which some are skipped.   *)
HostManifests ==
  KeyManifests \cup NonObjectDocs
    \cup {MixedManifest,
          Manifest(<<Member(S_models, EntryA), Member(S_unknown, EntryA),
                     Member(S_resources, EntryB)>>),
          OneSection(S_models, JArray(<<EntryBad, EntryA>>)),
          OneSection(S_pipelines, JArray(<<EntryBad, EntryB>>)),
          OneSection(S_resources,
                     JArray(<<EntryBad,
                              ResourceEntry(JString(S_a), NoNode,
                                            JArray(<<JNumber, JString(S_slx)>>))>>))}
HostFiles == OtherFiles \cup {File("regular", TRUE, "json", doc) : doc \in HostManifests}

InitHost ==
  /\ pc = "idle"
  /\ pkgid = NULL /\ appid = NULL
  /\ \E file \in HostFiles :
       fs = (S_manifest_path :> file) @@ (S_decoy_path :> DecoyFile)
  /\ handle = "none"
  /\ pkg_type = NULL /\ root_path = NULL /\ res_type = NULL /\ res_version = NULL
  /\ app_info = NULL /\ json_file = NULL
  /\ json_string = MissingFile
  /\ root = NoNode
  /\ iter = 0
  /\ config_ret = FALSE
  /\ node = NoNode
  /\ json_type = MLSVC_JSON_MAX
  /\ i = 0 /\ pidx = 0
  /\ ret = 0
  /\ calls = <<>>
  /\ failed = FALSE
  /\ env_calls = <<>>
  /\ install_ret = 0
  /\ NoHost
  /\ NoDaemon

NextHost ==
  \/ Next
  \/ HostInvoke \/ InstallReturned
  \/ PKGMGR_MDPARSER_PLUGIN_UNINSTALL
  \/ UpgradeUninstall \/ UpgradeInstall \/ UpgradeReturn
  \/ RecoverInstallCall \/ RecoverInstallReturn
  \/ RecoverUpgradeCall \/ RecoverUpgradeReturn
  \/ RecoverUninstallCall \/ RecoverUninstallReturn
  \/ PKGMGR_MDPARSER_PLUGIN_CLEAN \/ PKGMGR_MDPARSER_PLUGIN_UNDO

SpecHost == InitHost /\ [][NextHost]_vars

----------------------------------------------------------------------------
(* The Model interface of the daemon: its lifecycle hooks and its method   *)
(* handlers. The daemon has one thread; a hook or a handler runs on it.    *)

ENOSYS == 38

plugin ==
  <<pc, inputs, handle, meta, config, config_ret, section, backend, env_calls,
    install_ret, host>>

(* An entry of glib_calls: the hook, the function, the table index or 0,   *)
(* and whether the call succeeded.                                         *)
GlibCall(hook, fn, k, ok) == <<hook, fn, k, ok>>

(* gdbus_connect_signal: attaches the entries of the table in order; at    *)
(* the first that cannot be attached it detaches those it attached and     *)
(* fails. `attached` entries succeed; the result has the status, the new   *)
(* handler ids and the calls made.                                         *)
gdbus_connect_signal(hook, num_signals, attached) ==
  LET connects ==
        [k \in 1..attached |-> GlibCall(hook, "g_signal_connect", k, TRUE)]
  IN  IF attached = num_signals
        THEN [ret |-> 0,
              ids |-> [k \in 1..num_signals |-> k],
              log |-> connects]
        ELSE [ret |-> -1,
              ids |-> [k \in 1..num_signals |-> 0],
              log |-> connects
                        \o <<GlibCall(hook, "g_signal_connect", attached + 1, FALSE)>>
                        \o [k \in 1..attached |->
                              GlibCall(hook, "g_signal_handler_disconnect", k, TRUE)]]

(* gdbus_disconnect_signal: detaches every entry whose handler id is set. *)
RECURSIVE DisconnectFrom(_, _, _)
DisconnectFrom(hook, ids, k) ==
  IF k > Len(ids) THEN <<>>
  ELSE (IF ids[k] > 0
          THEN <<GlibCall(hook, "g_signal_handler_disconnect", k, TRUE)>>
          ELSE <<>>) \o DisconnectFrom(hook, ids, k + 1)

gdbus_disconnect_signal(hook, ids) ==
  [ids |-> [k \in 1..Len(ids) |-> 0], log |-> DisconnectFrom(hook, ids, 1)]

(* g_clear_object: drops the reference if there is one and nulls the pointer. *)
gdbus_put_model_instance(hook, instance) ==
  [instance |-> NullInstance,
   log |-> IF instance.null THEN <<>>
           ELSE <<GlibCall(hook, "g_object_unref", 0, TRUE)>>]

(* probe_model_module returns. *)
ProbeReturn(value) ==
  /\ probe_ret' = value
  /\ dpc' = "loop"

(* probe_model_module up to the check of the instance it got. *)
ProbeGetInstance ==
  /\ dpc = "loop" /\ hooks = <<>>
  /\ hooks' = <<"probe">>
  /\ \E got \in BOOLEAN :
       /\ glib_calls' =
            Append(glib_calls,
                   GlibCall("probe", "machinelearning_service_model_skeleton_new", 0, got))
       /\ IF got
            THEN /\ g_gdbus_instance' = Skeleton(FALSE)
                 /\ dpc' = "probe_connect"
                 /\ UNCHANGED probe_ret
            ELSE /\ g_gdbus_instance' = NullInstance
                 /\ ProbeReturn(-ENOSYS)
  /\ UNCHANGED <<plugin, state, handler_id, invoc, requests, svcdb_calls, responses>>

(* Mutation of ProbeConnect: the result of gdbus_connect_signal is not     *)
(* checked and probe goes on to the export.                                *)
ProbeConnect_unchecked ==
  /\ dpc = "probe_connect"
  /\ \E attached \in 0..ARRAY_SIZE(handler_infos) :
       LET r == gdbus_connect_signal("probe", ARRAY_SIZE(handler_infos), attached)
       IN  /\ handler_id' = r.ids
           /\ glib_calls' = glib_calls \o r.log
  /\ dpc' = "probe_export"
  /\ UNCHANGED <<plugin, state, g_gdbus_instance, probe_ret, hooks, invoc, requests,
                 svcdb_calls, responses>>

(* The handlers are attached; if that fails the instance is released. *)
ProbeConnect ==
  /\ dpc = "probe_connect"
  /\ \E attached \in 0..ARRAY_SIZE(handler_infos) :
       LET r == gdbus_connect_signal("probe", ARRAY_SIZE(handler_infos), attached)
           put == gdbus_put_model_instance("probe", g_gdbus_instance)
       IN  /\ handler_id' = r.ids
           /\ IF r.ret < 0
                THEN /\ g_gdbus_instance' = put.instance
                     /\ glib_calls' = glib_calls \o r.log \o put.log
                     /\ ProbeReturn(-ENOSYS)
                ELSE /\ glib_calls' = glib_calls \o r.log
                     /\ dpc' = "probe_export"
                     /\ UNCHANGED <<g_gdbus_instance, probe_ret>>
  /\ UNCHANGED <<plugin, state, hooks, invoc, requests, svcdb_calls, responses>>

(* Mutation of ProbeExport: a failed export jumps to out, not out_disconnect. *)
ProbeExport_keeps_handlers ==
  /\ dpc = "probe_export"
  /\ \E ok \in BOOLEAN :
       LET export == GlibCall("probe", "gdbus_export_interface", 0, ok)
           put == gdbus_put_model_instance("probe", g_gdbus_instance)
       IN  IF ok
             THEN /\ g_gdbus_instance' = Skeleton(TRUE)
                  /\ glib_calls' = Append(glib_calls, export)
                  /\ state' = "Probed"
                  /\ ProbeReturn(0)
                  /\ UNCHANGED handler_id
             ELSE /\ g_gdbus_instance' = put.instance
                  /\ glib_calls' = Append(glib_calls, export) \o put.log
                  /\ ProbeReturn(-ENOSYS)
                  /\ UNCHANGED <<state, handler_id>>
  /\ UNCHANGED <<plugin, hooks, invoc, requests, svcdb_calls, responses>>

(* The interface is exported; if that fails the handlers are detached and  *)
(* the instance is released.                                               *)
ProbeExport ==
  /\ dpc = "probe_export"
  /\ \E ok \in BOOLEAN :
       LET export == GlibCall("probe", "gdbus_export_interface", 0, ok)
           dis == gdbus_disconnect_signal("probe", handler_id)
           put == gdbus_put_model_instance("probe", g_gdbus_instance)
       IN  IF ok
             THEN /\ g_gdbus_instance' = Skeleton(TRUE)
                  /\ glib_calls' = Append(glib_calls, export)
                  /\ state' = "Probed"
                  /\ ProbeReturn(0)
                  /\ UNCHANGED handler_id
             ELSE /\ handler_id' = dis.ids
                  /\ g_gdbus_instance' = put.instance
                  /\ glib_calls' = Append(glib_calls, export) \o dis.log \o put.log
                  /\ ProbeReturn(-ENOSYS)
                  /\ UNCHANGED state
  /\ UNCHANGED <<plugin, hooks, invoc, requests, svcdb_calls, responses>>

(* gdbus_initialize: the daemon takes its name on the bus and serves. *)
init_model_module ==
  /\ dpc = "loop" /\ state = "Probed"
  /\ state' = "Active"
  /\ hooks' = Append(hooks, "init")
  /\ glib_calls' = Append(glib_calls, GlibCall("init", "gdbus_initialize", 0, TRUE))
  /\ UNCHANGED <<plugin, dpc, g_gdbus_instance, handler_id, probe_ret, invoc,
                 requests, svcdb_calls, responses>>

(* Mutation of exit_model_module: the instance is not released. *)
exit_model_module_keeps_instance ==
  /\ dpc = "loop" /\ state # "TornDown"
  /\ LET dis == gdbus_disconnect_signal("exit", handler_id)
     IN  /\ handler_id' = dis.ids
         /\ glib_calls' = glib_calls \o dis.log
  /\ state' = "TornDown"
  /\ hooks' = Append(hooks, "exit")
  /\ UNCHANGED <<plugin, dpc, g_gdbus_instance, probe_ret, invoc, requests,
                 svcdb_calls, responses>>

exit_model_module ==
  /\ dpc = "loop" /\ state # "TornDown"
  /\ LET dis == gdbus_disconnect_signal("exit", handler_id)
         put == gdbus_put_model_instance("exit", g_gdbus_instance)
     IN  /\ handler_id' = dis.ids
         /\ g_gdbus_instance' = put.instance
         /\ glib_calls' = glib_calls \o dis.log \o put.log
  /\ state' = "TornDown"
  /\ hooks' = Append(hooks, "exit")
  /\ UNCHANGED <<plugin, dpc, probe_ret, invoc, requests, svcdb_calls, responses>>

----------------------------------------------------------------------------
(* The methods of the Model interface and the signal the skeleton emits    *)
(* for each when the event loop takes an invocation from the bus.          *)

MaxRequests == 2

Methods ==
  {"Register", "UpdateDescription", "Activate", "Get", "GetActivated", "GetAll",
   "Delete"}

SignalOf(method) ==
  CASE method = "Register" -> "DBUS_MODEL_I_HANDLER_REGISTER"
    [] method = "UpdateDescription" -> "DBUS_MODEL_I_HANDLER_UPDATE_DESCRIPTION"
    [] method = "Activate" -> "DBUS_MODEL_I_HANDLER_ACTIVATE"
    [] method = "Get" -> "DBUS_MODEL_I_HANDLER_GET"
    [] method = "GetActivated" -> "DBUS_MODEL_I_HANDLER_GET_ACTIVATED"
    [] method = "GetAll" -> "DBUS_MODEL_I_HANDLER_GET_ALL"
    [] method = "Delete" -> "DBUS_MODEL_I_HANDLER_DELETE"
    [] OTHER -> "none"

(* What callers send: each method with its arguments, for two model names. *)
Names == {S_a, S_b}
Requests ==
  UNION {{Invocation(0, "Register", "none", n, S_sla, TRUE, S_d, S_app, 0, FALSE),
          Invocation(0, "UpdateDescription", "none", n, NULL, FALSE, S_d, NULL, 1, FALSE),
          Invocation(0, "Activate", "none", n, NULL, FALSE, NULL, NULL, 1, FALSE),
          Invocation(0, "Get", "none", n, NULL, FALSE, NULL, NULL, 1, FALSE),
          Invocation(0, "GetActivated", "none", n, NULL, FALSE, NULL, NULL, 0, FALSE),
          Invocation(0, "GetAll", "none", n, NULL, FALSE, NULL, NULL, 0, FALSE),
          Invocation(0, "Delete", "none", n, NULL, FALSE, NULL, NULL, 1, TRUE)} :
         n \in Names}

(* The event loop hands an invocation to the callback attached to the      *)
(* signal of its method; it does so only between hooks and handlers.       *)
Dispatch ==
  /\ dpc = "loop" /\ state = "Active"
  /\ ~g_gdbus_instance.null /\ g_gdbus_instance.exported
  /\ Len(requests) < MaxRequests
  /\ \E req \in Requests, k \in 1..ARRAY_SIZE(handler_infos) :
       /\ handler_infos[k].signal_name = SignalOf(req.method)
       /\ handler_id[k] > 0
       /\ invoc' = [req EXCEPT !.id = Len(requests) + 1, !.cb = handler_infos[k].cb]
       /\ requests' = Append(requests, invoc')
  /\ dpc' = "handler"
  /\ UNCHANGED <<plugin, state, g_gdbus_instance, handler_id, probe_ret, hooks,
                 glib_calls, svcdb_calls, responses>>

(* What the backend answers: success with the payload it wrote, if the     *)
(* operation has one, or an error code and nothing written.                *)
SvcdbErrors == {-22}
Answer(status, wrote, version, info) ==
  [status |-> status, wrote |-> wrote, version |-> version, model_info |-> info]
AnswersWithVersion ==
  {Answer(0, TRUE, 1, NULL)} \cup {Answer(e, FALSE, 0, NULL) : e \in SvcdbErrors}
AnswersWithInfo ==
  {Answer(0, TRUE, 0, S_p)} \cup {Answer(e, FALSE, 0, NULL) : e \in SvcdbErrors}
AnswersWithStatus == {Answer(e, FALSE, 0, NULL) : e \in {0} \cup SvcdbErrors}

(* An entry of svcdb_calls: the function, its arguments, and its answer. *)
SvcdbCall(fn, nm, pth, act, dsc, inf, ver, frc, answer) ==
  [fn |-> fn, name |-> nm, path |-> pth, is_active |-> act, description |-> dsc,
   app_info |-> inf, version |-> ver, force |-> frc, answer |-> answer]

svcdb_model_add(nm, pth, act, dsc, inf, answer) ==
  SvcdbCall("svcdb_model_add", nm, pth, act, dsc, inf, 0, FALSE, answer)
svcdb_model_update_description(nm, ver, dsc, answer) ==
  SvcdbCall("svcdb_model_update_description", nm, NULL, FALSE, dsc, NULL, ver, FALSE, answer)
svcdb_model_activate(nm, ver, answer) ==
  SvcdbCall("svcdb_model_activate", nm, NULL, FALSE, NULL, NULL, ver, FALSE, answer)
svcdb_model_get(nm, ver, answer) ==
  SvcdbCall("svcdb_model_get", nm, NULL, FALSE, NULL, NULL, ver, FALSE, answer)
svcdb_model_get_activated(nm, answer) ==
  SvcdbCall("svcdb_model_get_activated", nm, NULL, FALSE, NULL, NULL, 0, FALSE, answer)
svcdb_model_get_all(nm, answer) ==
  SvcdbCall("svcdb_model_get_all", nm, NULL, FALSE, NULL, NULL, 0, FALSE, answer)
svcdb_model_delete(nm, ver, frc, answer) ==
  SvcdbCall("svcdb_model_delete", nm, NULL, FALSE, NULL, NULL, ver, frc, answer)

(* machinelearning_service_model_complete_*: the reply is sent and the     *)
(* invocation is consumed. Methods without a payload reply the status only. *)
Complete(method, version, model_info, status) ==
  /\ responses' =
       Append(responses,
              [id |-> invoc.id, complete |-> method, version |-> version,
               model_info |-> model_info, status |-> status])
  /\ invoc' = NoInvocation

Handling(cb) == dpc = "handler" /\ invoc.cb = cb

(* A handler returns TRUE to the event loop. *)
HandlerReturn ==
  /\ dpc' = "loop"
  /\ UNCHANGED <<plugin, state, g_gdbus_instance, handler_id, probe_ret, hooks,
                 glib_calls, requests>>

gdbus_cb_model_register ==
  /\ Handling("gdbus_cb_model_register")
  /\ \E answer \in AnswersWithVersion :
       LET version == IF answer.wrote THEN answer.version ELSE 0
       IN  /\ svcdb_calls' =
                Append(svcdb_calls,
                       svcdb_model_add(invoc.name, invoc.path, invoc.is_active,
                                       invoc.description, invoc.app_info, answer))
           /\ Complete("machinelearning_service_model_complete_register",
                       version, NULL, answer.status)
  /\ HandlerReturn

gdbus_cb_model_update_description ==
  /\ Handling("gdbus_cb_model_update_description")
  /\ \E answer \in AnswersWithStatus :
       /\ svcdb_calls' =
            Append(svcdb_calls,
                   svcdb_model_update_description(invoc.name, invoc.version,
                                                  invoc.description, answer))
       /\ Complete("machinelearning_service_model_complete_update_description",
                   0, NULL, answer.status)
  /\ HandlerReturn

gdbus_cb_model_activate ==
  /\ Handling("gdbus_cb_model_activate")
  /\ \E answer \in AnswersWithStatus :
       /\ svcdb_calls' =
            Append(svcdb_calls, svcdb_model_activate(invoc.name, invoc.version, answer))
       /\ Complete("machinelearning_service_model_complete_activate",
                   0, NULL, answer.status)
  /\ HandlerReturn

(* Mutation of gdbus_cb_model_get: an error of the backend is not replied. *)
gdbus_cb_model_get_pending ==
  /\ Handling("gdbus_cb_model_get")
  /\ \E answer \in AnswersWithInfo :
       LET model_info == IF answer.wrote THEN answer.model_info ELSE NULL
       IN  /\ svcdb_calls' =
                Append(svcdb_calls, svcdb_model_get(invoc.name, invoc.version, answer))
           /\ IF answer.status = 0
                THEN Complete("machinelearning_service_model_complete_get",
                              0, model_info, answer.status)
                ELSE UNCHANGED <<responses, invoc>>
  /\ HandlerReturn

gdbus_cb_model_get ==
  /\ Handling("gdbus_cb_model_get")
  /\ \E answer \in AnswersWithInfo :
       LET model_info == IF answer.wrote THEN answer.model_info ELSE NULL
       IN  /\ svcdb_calls' =
                Append(svcdb_calls, svcdb_model_get(invoc.name, invoc.version, answer))
           /\ Complete("machinelearning_service_model_complete_get",
                       0, model_info, answer.status)
  /\ HandlerReturn

gdbus_cb_model_get_activated ==
  /\ Handling("gdbus_cb_model_get_activated")
  /\ \E answer \in AnswersWithInfo :
       LET model_info == IF answer.wrote THEN answer.model_info ELSE NULL
       IN  /\ svcdb_calls' =
                Append(svcdb_calls, svcdb_model_get_activated(invoc.name, answer))
           /\ Complete("machinelearning_service_model_complete_get_activated",
                       0, model_info, answer.status)
  /\ HandlerReturn

gdbus_cb_model_get_all ==
  /\ Handling("gdbus_cb_model_get_all")
  /\ \E answer \in AnswersWithInfo :
       LET model_info == IF answer.wrote THEN answer.model_info ELSE NULL
       IN  /\ svcdb_calls' =
                Append(svcdb_calls, svcdb_model_get_all(invoc.name, answer))
           /\ Complete("machinelearning_service_model_complete_get_all",
                       0, model_info, answer.status)
  /\ HandlerReturn

(* Mutation of gdbus_cb_model_delete: every error is replied as -1 and the *)
(* force flag is not passed on.                                            *)
gdbus_cb_model_delete_translated ==
  /\ Handling("gdbus_cb_model_delete")
  /\ \E answer \in AnswersWithStatus :
       /\ svcdb_calls' =
            Append(svcdb_calls,
                   svcdb_model_delete(invoc.name, invoc.version, FALSE, answer))
       /\ Complete("machinelearning_service_model_complete_delete",
                   0, NULL, IF answer.status < 0 THEN -1 ELSE 0)
  /\ HandlerReturn

gdbus_cb_model_delete ==
  /\ Handling("gdbus_cb_model_delete")
  /\ \E answer \in AnswersWithStatus :
       /\ svcdb_calls' =
            Append(svcdb_calls,
                   svcdb_model_delete(invoc.name, invoc.version, invoc.force, answer))
       /\ Complete("machinelearning_service_model_complete_delete",
                   0, NULL, answer.status)
  /\ HandlerReturn

InitDaemon ==
  /\ pc = "idle"
  /\ pkgid = NULL /\ appid = NULL
  /\ fs = (S_manifest_path :> MissingFile) @@ (S_decoy_path :> DecoyFile)
  /\ handle = "none"
  /\ pkg_type = NULL /\ root_path = NULL /\ res_type = NULL /\ res_version = NULL
  /\ app_info = NULL /\ json_file = NULL
  /\ json_string = MissingFile
  /\ root = NoNode
  /\ iter = 0
  /\ config_ret = FALSE
  /\ node = NoNode
  /\ json_type = MLSVC_JSON_MAX
  /\ i = 0 /\ pidx = 0
  /\ ret = 0
  /\ calls = <<>>
  /\ failed = FALSE
  /\ env_calls = <<>>
  /\ install_ret = 0
  /\ NoHost
  /\ NoDaemon

NextDaemon ==
  \/ ProbeGetInstance \/ ProbeConnect \/ ProbeExport
  \/ init_model_module \/ exit_model_module
  \/ Dispatch
  \/ gdbus_cb_model_register \/ gdbus_cb_model_update_description
  \/ gdbus_cb_model_activate \/ gdbus_cb_model_get \/ gdbus_cb_model_get_activated
  \/ gdbus_cb_model_get_all \/ gdbus_cb_model_delete

SpecDaemon == InitDaemon /\ [][NextDaemon]_vars

----------------------------------------------------------------------------
(* What the manifest format asks for, stated on the input document and      *)
(* independently of the parser: the properties below compare the two.       *)

Lower(s) == [j \in 1..Len(s) |-> IF s[j] \in 65..90 THEN s[j] + 32 ELSE s[j]]
SameIgnoringCase(s1, s2) == Lower(s1) = Lower(s2)

CategoryOf(key) ==
  IF Lower(key) \in {S_model, S_models} THEN "model"
  ELSE IF Lower(key) \in {S_pipeline, S_pipelines} THEN "pipeline"
  ELSE IF Lower(key) \in {S_resource, S_resources} THEN "resource"
  ELSE "none"

InputFile == fs[S_manifest_path]
Doc == InputFile.doc

Loads(file) == file.kind = "regular" /\ file.readable /\ file.syntax = "json"

StructurallyValid ==
  /\ Loads(InputFile)
  /\ Doc.t = "object"
  /\ \A j \in 1..Len(Doc.e) : CategoryOf(Doc.e[j].k) # "none"

(* _get_json_config was called and has returned. *)
ParseReturned == pc \in {"config_returned", "returned"} /\ json_file # NULL

RECURSIVE Flatten(_)
Flatten(ss) == IF ss = <<>> THEN <<>> ELSE ss[1] \o Flatten(Tail(ss))

EntriesOf(value) == IF value.t = "array" THEN value.e ELSE <<value>>

(* The text of the string member key of entry e, NULL when it has none. *)
StringField(e, key) ==
  LET hits == {j \in 1..Len(e.e) : e.e[j].k = key /\ e.e[j].t = "string"}
  IN  IF e.t = "object" /\ hits # {} THEN e.e[CHOOSE j \in hits : TRUE].s ELSE NULL

StringOrEmpty(e, key) == IF StringField(e, key) = NULL THEN EmptyStr
                         ELSE StringField(e, key)

(* The entries of all sections of one category, in document order. *)
SectionEntries(doc, category) ==
  Flatten([j \in 1..Len(doc.e) |->
             IF CategoryOf(doc.e[j].k) = category THEN EntriesOf(doc.e[j]) ELSE <<>>])

IsRegister(c) == c.op = "ml_agent_model_register"
IsSetDescription(c) == c.op = "ml_agent_pipeline_set_description"
IsAddResource(c) == c.op = "ml_agent_resource_add"

ModelComplete(e) == StringField(e, S_name) # NULL /\ StringField(e, S_model) # NULL

RegisterFor(e) ==
  [op |-> "ml_agent_model_register",
   name |-> StringField(e, S_name),
   arg |-> StringField(e, S_model),
   active |-> (StringField(e, S_activate) # NULL
                 /\ SameIgnoringCase(StringField(e, S_activate), S_true)),
   desc |-> StringOrEmpty(e, S_description),
   app_info |-> app_info]

(* C1: after parsing a structurally valid manifest whose model sections    *)
(* hold N entries, each with a string name and a string model, the         *)
(* Register calls issued are exactly N, one per entry in document order,   *)
(* each with that entry's name, model path, description (empty when        *)
(* absent) and active flag, wherever the model sections stand among the    *)
(* pipeline and resource sections.                                         *)
C1_RegisterPerModelEntry ==
  (/\ ParseReturned
   /\ StructurallyValid
   /\ \A j \in 1..Len(SectionEntries(Doc, "model")) :
        ModelComplete(SectionEntries(Doc, "model")[j]))
  => LET es == SectionEntries(Doc, "model")
     IN  SelectSeq(calls, IsRegister) = [j \in 1..Len(es) |-> RegisterFor(es[j])]

(* Three model entries in a singular and a plural section, with a section  *)
(* of another category standing before a model section.                    *)
C1_Witness ==
  /\ ParseReturned
  /\ StructurallyValid
  /\ \A j \in 1..Len(SectionEntries(Doc, "model")) :
       ModelComplete(SectionEntries(Doc, "model")[j])
  /\ Len(SectionEntries(Doc, "model")) = 3
  /\ Len(SelectSeq(calls, IsRegister)) = 3
  /\ \E j, k \in 1..Len(Doc.e) :
       /\ j < k
       /\ CategoryOf(Doc.e[j].k) \in {"pipeline", "resource"}
       /\ CategoryOf(Doc.e[k].k) = "model"
       /\ Doc.e[k].t = "array"

----------------------------------------------------------------------------
(* The member key of entry e, NoNode when it has none. *)
FieldNode(e, key) ==
  LET hits == {j \in 1..Len(e.e) : e.e[j].k = key}
  IN  IF e.t = "object" /\ hits # {} THEN e.e[CHOOSE j \in hits : TRUE] ELSE NoNode

AddResourceFor(e, path_text) ==
  [op |-> "ml_agent_resource_add",
   name |-> StringField(e, S_name),
   arg |-> path_text,
   active |-> FALSE,
   desc |-> StringOrEmpty(e, S_description),
   app_info |-> app_info]

(* One call per element of an array path, one call for a string path. *)
AddResourcePerPath(e) ==
  LET p == FieldNode(e, S_path)
  IN  IF p.t = "array" THEN [x \in 1..Len(p.e) |-> AddResourceFor(e, p.e[x].s)]
      ELSE <<AddResourceFor(e, p.s)>>

NamedWithPath(e) ==
  StringField(e, S_name) # NULL /\ FieldNode(e, S_path).t \in {"array", "string"}

AllPathsStrings(e) ==
  LET p == FieldNode(e, S_path)
  IN  p.t = "array" => \A x \in 1..Len(p.e) : p.e[x].t = "string"

(* The entry whose processing has just ended, while a section is replayed. *)
SectionRunning == pc = "entries" /\ i >= 1 /\ i <= Len(EntriesOf(node))
LastEntry == EntriesOf(node)[i]

LastCalls(n) == SubSeq(calls, Len(calls) - n + 1, Len(calls))

(* C2 as stated: a named resource entry whose path is an array of length K *)
(* yields exactly K AddResource calls, the x-th carrying the x-th element, *)
(* and one call when the path is a single string.                          *)
C2_Original ==
  (/\ ParseReturned
   /\ StructurallyValid
   /\ \A j \in 1..Len(SectionEntries(Doc, "resource")) :
        NamedWithPath(SectionEntries(Doc, "resource")[j]))
  => LET es == SectionEntries(Doc, "resource")
     IN  SelectSeq(calls, IsAddResource)
           = Flatten([j \in 1..Len(es) |-> AddResourcePerPath(es[j])])

(* C2, amended: a resource entry with a string name whose path is an array *)
(* of K strings yields exactly K AddResource calls with the same name,     *)
(* description and appInfo, the x-th carrying the x-th string; a path that *)
(* is a single string yields exactly one call.  Stated on the whole log    *)
(* when every resource entry is of that kind, and on the calls issued last *)
(* when such an entry has just been processed among any siblings.          *)
C2_AddResourcePerPath ==
  /\ (/\ ParseReturned
      /\ StructurallyValid
      /\ \A j \in 1..Len(SectionEntries(Doc, "resource")) :
           /\ NamedWithPath(SectionEntries(Doc, "resource")[j])
           /\ AllPathsStrings(SectionEntries(Doc, "resource")[j]))
     => LET es == SectionEntries(Doc, "resource")
        IN  SelectSeq(calls, IsAddResource)
              = Flatten([j \in 1..Len(es) |-> AddResourcePerPath(es[j])])
  /\ (/\ SectionRunning
      /\ json_type = MLSVC_JSON_RESOURCE
      /\ NamedWithPath(LastEntry)
      /\ AllPathsStrings(LastEntry))
     => LET expected == AddResourcePerPath(LastEntry)
        IN  /\ Len(calls) >= Len(expected)
            /\ LastCalls(Len(expected)) = expected

(* An entry with a description and two string paths has been replayed. *)
C2_Witness ==
  /\ SectionRunning
  /\ json_type = MLSVC_JSON_RESOURCE
  /\ NamedWithPath(LastEntry)
  /\ AllPathsStrings(LastEntry)
  /\ FieldNode(LastEntry, S_path).t = "array"
  /\ Len(FieldNode(LastEntry, S_path).e) = MaxPaths
  /\ FieldNode(LastEntry, S_path).e[1] # FieldNode(LastEntry, S_path).e[2]
  /\ StringField(LastEntry, S_description) # NULL
  /\ Len(SelectSeq(calls, IsAddResource)) = MaxPaths

----------------------------------------------------------------------------
(* The calls the manifest format asks for, entry by entry. *)

PipelineComplete(e) ==
  StringField(e, S_name) # NULL /\ StringField(e, S_pipeline) # NULL

SetDescriptionFor(e) ==
  [op |-> "ml_agent_pipeline_set_description",
   name |-> StringField(e, S_name),
   arg |-> StringField(e, S_pipeline),
   active |-> FALSE,
   desc |-> NULL,
   app_info |-> NULL]

IsStringNode(n) == n.t = "string"

(* The paths of a resource entry that are strings, in order. *)
ResolvablePaths(e) ==
  LET p == FieldNode(e, S_path)
  IN  IF p.t = "string" THEN <<p.s>>
      ELSE IF p.t = "array"
        THEN LET strings == SelectSeq(p.e, IsStringNode)
             IN  [x \in 1..Len(strings) |-> strings[x].s]
      ELSE <<>>

ResourceComplete(e) == StringField(e, S_name) # NULL /\ ResolvablePaths(e) # <<>>

WellFormed(category, e) ==
  IF category = "model" THEN ModelComplete(e)
  ELSE IF category = "pipeline" THEN PipelineComplete(e)
  ELSE ResourceComplete(e)

CallsFor(category, e) ==
  IF ~WellFormed(category, e) THEN <<>>
  ELSE IF category = "model" THEN <<RegisterFor(e)>>
  ELSE IF category = "pipeline" THEN <<SetDescriptionFor(e)>>
  ELSE [x \in 1..Len(ResolvablePaths(e)) |-> AddResourceFor(e, ResolvablePaths(e)[x])]

SectionCalls(member) ==
  Flatten([x \in 1..Len(EntriesOf(member)) |->
             CallsFor(CategoryOf(member.k), EntriesOf(member)[x])])

(* The calls of the well-formed entries of the sections ms, in order. *)
ExpectedCalls(ms) == Flatten([j \in 1..Len(ms) |-> SectionCalls(ms[j])])

HasMalformedEntry(member) ==
  \E x \in 1..Len(EntriesOf(member)) :
     ~WellFormed(CategoryOf(member.k), EntriesOf(member)[x])

(* C3: in a structurally valid manifest, an entry missing a required field *)
(* of its category (model: name or model; pipeline: name or pipeline;      *)
(* resource: name, or no resolvable path) causes no backend call, the      *)
(* calls of its siblings and of the other sections are issued as if it     *)
(* were not there, and the parse result is true.                           *)
C3_MalformedEntrySkipped ==
  (/\ ParseReturned
   /\ StructurallyValid
   /\ \E j \in 1..Len(Doc.e) : HasMalformedEntry(Doc.e[j]))
  => /\ calls = ExpectedCalls(Doc.e)
     /\ config_ret = TRUE

(* Three sections, each with a malformed entry before a well-formed one. *)
C3_Witness ==
  /\ ParseReturned
  /\ StructurallyValid
  /\ Len(Doc.e) = 3
  /\ \A j \in 1..3 :
       /\ Doc.e[j].t = "array"
       /\ Len(Doc.e[j].e) = 2
       /\ ~WellFormed(CategoryOf(Doc.e[j].k), Doc.e[j].e[1])
       /\ WellFormed(CategoryOf(Doc.e[j].k), Doc.e[j].e[2])
  /\ {CategoryOf(Doc.e[j].k) : j \in 1..3} = {"model", "pipeline", "resource"}
  /\ Len(calls) = 4
  /\ config_ret = TRUE

(* The position of the first unrecognized top-level key, 0 when none. *)
FirstUnknown(doc) ==
  LET unknown == {j \in 1..Len(doc.e) : CategoryOf(doc.e[j].k) = "none"}
  IN  IF unknown = {} THEN 0 ELSE CHOOSE j \in unknown : \A x \in unknown : j <= x

(* C4: when a top-level key is not one of the six recognized spellings the *)
(* parse returns false; the sections before the first such key have had    *)
(* their calls issued, and nothing after it is processed.                  *)
C4_UnknownKeyFails ==
  (/\ ParseReturned
   /\ Loads(InputFile)
   /\ Doc.t = "object"
   /\ FirstUnknown(Doc) # 0)
  => /\ config_ret = FALSE
     /\ calls = ExpectedCalls(SubSeq(Doc.e, 1, FirstUnknown(Doc) - 1))

(* An unrecognized key between two sections that both hold complete entries. *)
C4_Witness ==
  /\ ParseReturned
  /\ Loads(InputFile)
  /\ Doc.t = "object"
  /\ Len(Doc.e) = 3
  /\ FirstUnknown(Doc) = 2
  /\ SectionCalls(Doc.e[1]) # <<>>
  /\ SectionCalls(Doc.e[3]) # <<>>
  /\ calls = SectionCalls(Doc.e[1])
  /\ config_ret = FALSE

----------------------------------------------------------------------------
(* C5: when the text of the manifest is valid JSON whose top-level value   *)
(* is not an object, the parse returns false and no backend call is        *)
(* issued.                                                                 *)
C5_NonObjectRootFails ==
  (ParseReturned /\ Loads(InputFile) /\ Doc.t # "object")
  => (config_ret = FALSE /\ calls = <<>>)

(* C6: when the manifest path does not exist or is not a regular file, or  *)
(* its contents cannot be read or are not valid JSON, the parse returns    *)
(* false and no backend call is issued.                                    *)
C6_UnusableFileFails ==
  (/\ ParseReturned
   /\ \/ InputFile.kind # "regular"
      \/ ~InputFile.readable
      \/ InputFile.syntax = "invalid")
  => (config_ret = FALSE /\ calls = <<>>)

CategoryType(category) ==
  IF category = "model" THEN MLSVC_JSON_MODEL
  ELSE IF category = "pipeline" THEN MLSVC_JSON_PIPELINE
  ELSE IF category = "resource" THEN MLSVC_JSON_RESOURCE
  ELSE MLSVC_JSON_MAX

(* C7: a top-level key selects the category of its lower-case spelling:    *)
(* while a section is replayed its type is that category, and a manifest   *)
(* is refused for its keys only at a key that is no letter-case variant of *)
(* the six spellings; and the Register call of a complete model entry has  *)
(* active = TRUE exactly when activate is a string equal to "true"         *)
(* ignoring case.                                                          *)
C7_CaseInsensitive ==
  /\ pc \in {"entries", "paths"}
       => json_type = CategoryType(CategoryOf(member_name))
  /\ (pc = "config_returned" /\ root # NoNode /\ ~config_ret)
       => (iter < Len(members) /\ CategoryOf(member_name) = "none")
  /\ (SectionRunning /\ json_type = MLSVC_JSON_MODEL /\ ModelComplete(LastEntry))
       => /\ calls # <<>>
          /\ calls[Len(calls)].name = StringField(LastEntry, S_name)
          /\ calls[Len(calls)].active
                = (/\ StringField(LastEntry, S_activate) # NULL
                   /\ Lower(StringField(LastEntry, S_activate)) = S_true)

(* A model section under a key in capitals, and an entry just registered   *)
(* as active whose activate is not spelled "true".                         *)
C7_Witness ==
  /\ SectionRunning
  /\ json_type = MLSVC_JSON_MODEL
  /\ member_name \notin {S_model, S_models}
  /\ ModelComplete(LastEntry)
  /\ StringField(LastEntry, S_activate) \notin {NULL, S_true}
  /\ calls # <<>>
  /\ calls[Len(calls)].active = TRUE

(* C8: for a structurally valid manifest, whatever statuses the backend    *)
(* returned and also when some were non-zero, the calls issued are those   *)
(* of the manifest, each once and in order, the parse result is true and   *)
(* INSTALL returns 0.                                                      *)
C8_BackendStatusIgnored ==
  (ParseReturned /\ StructurallyValid /\ failed)
  => /\ calls = ExpectedCalls(Doc.e)
     /\ config_ret = TRUE
     /\ pc = "returned" => install_ret = 0

(* INSTALL has returned after a failed call was followed by further calls  *)
(* in a later section.                                                     *)
C8_Witness ==
  /\ pc = "returned"
  /\ StructurallyValid
  /\ failed
  /\ ret = 0
  /\ Len(Doc.e) >= 2
  /\ Len(calls) >= 3
  /\ install_ret = 0

----------------------------------------------------------------------------
(* The functions INSTALL calls once the package is known to be an rpk. *)
AfterTypeCheck ==
  {"pkgmgrinfo_pkginfo_get_root_path", "pkgmgrinfo_pkginfo_get_res_type",
   "pkgmgrinfo_pkginfo_get_res_version", "_make_pkg_info", "g_file_test",
   "g_file_get_contents", "json_parser_load_from_data", "json_parser_get_root"}

Called(fns) == \E j \in 1..Len(env_calls) : env_calls[j][1] \in fns

(* C9: INSTALL of a package whose declared type is not "rpk" returns 0     *)
(* with no backend call, without resolving the root path, the resource     *)
(* type or the resource version and without reading a manifest.            *)
C9_NonRpkSkipped ==
  (pc = "returned" /\ pkg_type # NULL /\ pkg_type # S_rpk)
  => /\ install_ret = 0
     /\ calls = <<>>
     /\ ~Called(AfterTypeCheck)
     /\ root_path = NULL /\ res_type = NULL /\ res_version = NULL
     /\ json_file = NULL /\ json_string = MissingFile

(* INSTALL has returned for a package of type "RPK", which is not "rpk". *)
C9_Witness ==
  /\ pc = "returned"
  /\ pkg_type = S_RPK
  /\ install_ret = 0
  /\ Len(env_calls) = 3

MetadataSteps ==
  <<"pkgmgrinfo_pkginfo_get_pkginfo", "pkgmgrinfo_pkginfo_get_type",
    "pkgmgrinfo_pkginfo_get_root_path", "pkgmgrinfo_pkginfo_get_res_type",
    "pkgmgrinfo_pkginfo_get_res_version">>

(* The position in env_calls of the metadata query that failed, 0 if none. *)
FailedQuery ==
  LET bad == {j \in 1..Len(env_calls) : env_calls[j][2] = "PMINFO_R_ERROR"}
  IN  IF bad = {} THEN 0 ELSE CHOOSE j \in bad : \A x \in bad : j <= x

(* C10: when a metadata query of INSTALL fails (package handle, package    *)
(* type, root path, resource type, resource version), INSTALL returns a    *)
(* negative value at once: the queries before it are the steps before it   *)
(* in order, nothing but the release of the handle follows it, no manifest *)
(* is parsed and no backend call is issued.                                *)
C10_MetadataFailureIsFatal ==
  FailedQuery # 0
  => /\ pc = "returned"
     /\ install_ret < 0
     /\ calls = <<>>
     /\ FailedQuery <= Len(MetadataSteps)
     /\ \A j \in 1..FailedQuery : env_calls[j][1] = MetadataSteps[j]
     /\ \A j \in (FailedQuery + 1)..Len(env_calls) : env_calls[j] = Destroy
     /\ json_file = NULL /\ app_info = NULL /\ root = NoNode

(* The last query, of the resource version, failed after four succeeded. *)
C10_Witness ==
  /\ pc = "returned"
  /\ FailedQuery = 5
  /\ env_calls[5][1] = "pkgmgrinfo_pkginfo_get_res_version"
  /\ res_type # NULL
  /\ install_ret = -1

----------------------------------------------------------------------------
(* C11: for an rpk package whose metadata all resolved, the manifest       *)
(* parsed is the file at <root>/res/global/<resourceType>/rpk_config.json, *)
(* and INSTALL returns 0 exactly when the parser returned true and a       *)
(* negative value exactly when it returned false.                          *)
C11_InstallPropagatesParse ==
  (pc = "returned" /\ res_version # NULL)
  => /\ json_file = S_manifest_path
     /\ json_string \in {MissingFile, InputFile}
     /\ (install_ret = 0) <=> (config_ret = TRUE)
     /\ (install_ret < 0) <=> (config_ret = FALSE)

(* INSTALL has returned -1 for a manifest refused at an unrecognized key,  *)
(* after calls were issued for the section before it.                      *)
C11_Witness ==
  /\ pc = "returned"
  /\ res_version # NULL
  /\ json_string = InputFile
  /\ FirstUnknown(Doc) = 2
  /\ calls # <<>>
  /\ config_ret = FALSE
  /\ install_ret = -1

(* The text of the application context of package "pkg" with resource type *)
(* "t" and version "1", for application "app" and for no application.      *)
S_info_with_app ==
  <<123, 10, 32, 32, 34, 105, 115, 95, 114, 112, 107, 34, 32, 58, 32,
    34, 84, 34, 44, 10, 32, 32, 34, 112, 107, 103, 95, 105, 100, 34, 32,
    58, 32, 34, 112, 107, 103, 34, 44, 10, 32, 32, 34, 97, 112, 112, 95,
    105, 100, 34, 32, 58, 32, 34, 97, 112, 112, 34, 44, 10, 32, 32, 34,
    114, 101, 115, 95, 116, 121, 112, 101, 34, 32, 58, 32, 34, 116, 34,
    44, 10, 32, 32, 34, 114, 101, 115, 95, 118, 101, 114, 115, 105, 111,
    110, 34, 32, 58, 32, 34, 49, 34, 10, 125>>
S_info_without_app ==
  <<123, 10, 32, 32, 34, 105, 115, 95, 114, 112, 107, 34, 32, 58, 32,
    34, 84, 34, 44, 10, 32, 32, 34, 112, 107, 103, 95, 105, 100, 34, 32,
    58, 32, 34, 112, 107, 103, 34, 44, 10, 32, 32, 34, 97, 112, 112, 95,
    105, 100, 34, 32, 58, 32, 34, 34, 44, 10, 32, 32, 34, 114, 101, 115,
    95, 116, 121, 112, 101, 34, 32, 58, 32, 34, 116, 34, 44, 10, 32, 32,
    34, 114, 101, 115, 95, 118, 101, 114, 115, 105, 111, 110, 34, 32,
    58, 32, 34, 49, 34, 10, 125>>

MakePkgInfoCalls ==
  {j \in 1..Len(env_calls) : env_calls[j][1] = "_make_pkg_info"}

(* C20: during one INSTALL the application context is serialized at most   *)
(* once, and only after the five metadata queries succeeded; its text has  *)
(* the five members in order, app_id being "" when appId is absent; every  *)
(* Register and AddResource call of the install carries that text.         *)
C20_AppInfoOnEveryCall ==
  /\ Cardinality(MakePkgInfoCalls) <= 1
  /\ \A j \in MakePkgInfoCalls :
       /\ j = Len(MetadataSteps) + 1
       /\ \A x \in 1..(j - 1) :
            env_calls[x] = Env(MetadataSteps[x], "PMINFO_R_OK")
  /\ app_info # NULL
       => app_info = (IF appid = NULL THEN S_info_without_app ELSE S_info_with_app)
  /\ \A j \in 1..Len(calls) :
       (IsRegister(calls[j]) \/ IsAddResource(calls[j]))
         => /\ MakePkgInfoCalls # {}
            /\ calls[j].app_info = app_info
            /\ calls[j].app_info
                 = (IF appid = NULL THEN S_info_without_app ELSE S_info_with_app)

(* An install without appId has issued a Register and an AddResource call. *)
C20_Witness ==
  /\ pc = "returned"
  /\ appid = NULL
  /\ \E j \in 1..Len(calls) : IsRegister(calls[j])
  /\ \E j \in 1..Len(calls) : IsAddResource(calls[j])
  /\ \A j \in 1..Len(calls) :
       (IsRegister(calls[j]) \/ IsAddResource(calls[j]))
         => calls[j].app_info = S_info_without_app

----------------------------------------------------------------------------
(* The entry point the package manager invoked has returned to it. *)
HostDone == invoked # "none" /\ stack = <<>>

(* The entries of the trace about fn. *)
EventsOf(ev, fn) == {j \in 1..Len(trace) : trace[j].ev = ev /\ trace[j].fn = fn}

(* The install step ran and reported a failure to its caller. *)
InstallStepFailed == \E j \in EventsOf("return", "INSTALL") : trace[j].value # 0

(* C12: when the install step of UPGRADE fails, UPGRADE returns a non-zero *)
(* result to the package manager, and so does RECOVERUPGRADE.              *)
C12_UpgradeReportsFailure ==
  (HostDone /\ invoked \in {"UPGRADE", "RECOVERUPGRADE"} /\ InstallStepFailed)
  => retval # 0

----------------------------------------------------------------------------
IsPrefix(s, full) == Len(s) <= Len(full) /\ s = SubSeq(full, 1, Len(s))

(* What one UPGRADE with arguments (p, a) does, its install returning v. *)
UpgradeSteps(p, a, v) ==
  <<CallEvent("UPGRADE", p, a),
    CallEvent("UNINSTALL", p, a), ReturnEvent("UNINSTALL", p, a, 0),
    CallEvent("INSTALL", p, a), ReturnEvent("INSTALL", p, a, v),
    ReturnEvent("UPGRADE", p, a, 0)>>

RecoverUpgradeSteps(p, a, v) ==
  <<CallEvent("RECOVERUPGRADE", p, a)>> \o UpgradeSteps(p, a, v)
    \o <<ReturnEvent("RECOVERUPGRADE", p, a, 0)>>

(* The trace is what the invoked entry point has to do, as far as it got;  *)
(* the arguments are those of the invocation and v is what INSTALL gave.   *)
Follows(steps(_, _, _)) ==
  /\ trace # <<>>
  /\ \E v \in {0, -1} :
       /\ IsPrefix(trace, steps(trace[1].pkgid, trace[1].appid, v))
       /\ EventsOf("return", "INSTALL") # {} => v = install_ret
  /\ HostDone => trace = steps(trace[1].pkgid, trace[1].appid, install_ret)

(* INSTALL was entered with the arguments of the invocation. *)
InstallGotHostArguments ==
  EventsOf("call", "INSTALL") # {}
  => pkgid = trace[1].pkgid /\ appid = trace[1].appid

(* Nothing is asked of the backend or of the platform before INSTALL runs. *)
QuietBeforeInstall ==
  EventsOf("call", "INSTALL") = {} => calls = <<>> /\ env_calls = <<>>

(* Only INSTALL talks to the backend and to the platform: a step of any    *)
(* other entry point leaves both logs as they are.                         *)
OnlyInstallCalls ==
  (stack = <<>> \/ Top.fn # "INSTALL") => UNCHANGED <<calls, env_calls>>

(* C13: an UPGRADE calls UNINSTALL once and then INSTALL once, both with   *)
(* its own arguments, whatever UNINSTALL returned, and returns; a          *)
(* RECOVERUPGRADE is one UPGRADE with its arguments, whose result it       *)
(* returns, and neither issues a backend call outside the INSTALL it runs. *)
C13_UpgradeIsUninstallThenInstall ==
  /\ [](/\ invoked = "UPGRADE" => Follows(UpgradeSteps)
        /\ invoked = "RECOVERUPGRADE" => Follows(RecoverUpgradeSteps)
        /\ invoked \in {"UPGRADE", "RECOVERUPGRADE"}
             => InstallGotHostArguments /\ QuietBeforeInstall)
  /\ [][(invoked \in {"UPGRADE", "RECOVERUPGRADE"}) => OnlyInstallCalls]_vars

(* A RECOVERUPGRADE with an application id has returned; its install step  *)
(* issued backend calls.                                                   *)
C13_Witness ==
  /\ HostDone
  /\ invoked = "RECOVERUPGRADE"
  /\ trace[1].appid = S_app
  /\ Len(trace) = 8
  /\ calls # <<>>

----------------------------------------------------------------------------
UninstallSteps(p, a, v) ==
  <<CallEvent("UNINSTALL", p, a), ReturnEvent("UNINSTALL", p, a, 0)>>
CleanSteps(p, a, v) ==
  <<CallEvent("CLEAN", p, a), ReturnEvent("CLEAN", p, a, 0)>>
UndoSteps(p, a, v) ==
  <<CallEvent("UNDO", p, a), ReturnEvent("UNDO", p, a, 0)>>
RecoverInstallSteps(p, a, v) ==
  <<CallEvent("RECOVERINSTALL", p, a)>> \o UninstallSteps(p, a, v)
    \o <<ReturnEvent("RECOVERINSTALL", p, a, 0)>>
InstallSteps(p, a, v) ==
  <<CallEvent("INSTALL", p, a), ReturnEvent("INSTALL", p, a, v)>>
RecoverUninstallSteps(p, a, v) ==
  <<CallEvent("RECOVERUNINSTALL", p, a)>> \o InstallSteps(p, a, v)
    \o <<ReturnEvent("RECOVERUNINSTALL", p, a, v)>>

NoOps == {"UNINSTALL", "CLEAN", "UNDO", "RECOVERINSTALL"}

(* C14: UNINSTALL, CLEAN and UNDO return 0 and call nothing;               *)
(* RECOVERINSTALL is one UNINSTALL, whose result (0) it returns, with no   *)
(* backend call; RECOVERUNINSTALL is one INSTALL with its own arguments,   *)
(* whose result it returns, with no backend call but those of INSTALL.     *)
C14_RecoveryIsComposition ==
  /\ [](/\ invoked = "UNINSTALL" => Follows(UninstallSteps)
        /\ invoked = "CLEAN" => Follows(CleanSteps)
        /\ invoked = "UNDO" => Follows(UndoSteps)
        /\ invoked = "RECOVERINSTALL" => Follows(RecoverInstallSteps)
        /\ invoked \in NoOps => calls = <<>> /\ env_calls = <<>>
        /\ (invoked \in NoOps /\ HostDone) => retval = 0
        /\ invoked = "INSTALL" => Follows(InstallSteps)
        /\ invoked = "RECOVERUNINSTALL"
             => /\ Follows(RecoverUninstallSteps)
                /\ InstallGotHostArguments /\ QuietBeforeInstall
                /\ HostDone => retval = install_ret)
  /\ [][(invoked \in NoOps \cup {"RECOVERUNINSTALL"}) => OnlyInstallCalls]_vars

(* A RECOVERUNINSTALL has returned the failure of the INSTALL it ran, which *)
(* had issued backend calls before it met an unrecognized key.             *)
C14_Witness ==
  /\ HostDone
  /\ invoked = "RECOVERUNINSTALL"
  /\ retval = -1
  /\ calls # <<>>
  /\ Len(trace) = 4

----------------------------------------------------------------------------
(* The replies sent for the invocation with this id. *)
Replies(id) == {j \in 1..Len(responses) : responses[j].id = id}

(* A handler is running on the request dispatched last. *)
HandlerRunning == dpc = "handler"

(* C15: at every moment each dispatched request has exactly one reply,     *)
(* except the one a handler is running on, which has none yet and is the   *)
(* last dispatched; replies are in the order of dispatch, whatever the     *)
(* backend answered, so nothing is pending when the next is dispatched.    *)
C15_EveryRequestCompletedOnce ==
  /\ \A j \in 1..Len(requests) :
       Cardinality(Replies(requests[j].id)) =
         IF HandlerRunning /\ j = Len(requests) THEN 0 ELSE 1
  /\ \A j \in 1..Len(responses) : responses[j].id = requests[j].id
  /\ \A x, y \in 1..Len(requests) : requests[x].id = requests[y].id => x = y
  /\ HandlerRunning => requests # <<>> /\ invoc = requests[Len(requests)]
  /\ ~HandlerRunning => invoc = NoInvocation

(* Two requests were dispatched and replied; the backend failed the first, *)
(* a Get, and wrote no record.                                             *)
C15_Witness ==
  /\ Len(requests) = 2 /\ Len(responses) = 2
  /\ requests[1].method = "Get"
  /\ svcdb_calls[1].answer.status < 0
  /\ ~svcdb_calls[1].answer.wrote
  /\ responses[1].status < 0
  /\ ~HandlerRunning

----------------------------------------------------------------------------
BackendOf(method) ==
  CASE method = "Register" -> "svcdb_model_add"
    [] method = "UpdateDescription" -> "svcdb_model_update_description"
    [] method = "Activate" -> "svcdb_model_activate"
    [] method = "Get" -> "svcdb_model_get"
    [] method = "GetActivated" -> "svcdb_model_get_activated"
    [] method = "GetAll" -> "svcdb_model_get_all"
    [] method = "Delete" -> "svcdb_model_delete"

CompletionOf(method) ==
  CASE method = "Register" -> "machinelearning_service_model_complete_register"
    [] method = "UpdateDescription" ->
         "machinelearning_service_model_complete_update_description"
    [] method = "Activate" -> "machinelearning_service_model_complete_activate"
    [] method = "Get" -> "machinelearning_service_model_complete_get"
    [] method = "GetActivated" ->
         "machinelearning_service_model_complete_get_activated"
    [] method = "GetAll" -> "machinelearning_service_model_complete_get_all"
    [] method = "Delete" -> "machinelearning_service_model_complete_delete"

ArgumentsOf(r) ==
  <<r.name, r.path, r.is_active, r.description, r.app_info, r.version, r.force>>

(* C16: the j-th reply answers the j-th request after exactly one backend  *)
(* call, the j-th: the operation of the request's method with the          *)
(* request's arguments; the reply carries the status the backend returned  *)
(* and the payload it wrote (the version for Register, the record for the  *)
(* Get methods), or the initial 0 or NULL when it wrote none.              *)
C16_OneBackendCallVerbatim ==
  /\ Len(svcdb_calls) = Len(responses)
  /\ \A j \in 1..Len(responses) :
       LET req == requests[j]
           call == svcdb_calls[j]
           rsp == responses[j]
       IN  /\ call.fn = BackendOf(req.method)
           /\ ArgumentsOf(call) = ArgumentsOf(req)
           /\ rsp.id = req.id
           /\ rsp.complete = CompletionOf(req.method)
           /\ rsp.status = call.answer.status
           /\ rsp.version =
                IF req.method = "Register" /\ call.answer.wrote
                  THEN call.answer.version ELSE 0
           /\ rsp.model_info =
                IF req.method \in {"Get", "GetActivated", "GetAll"} /\ call.answer.wrote
                  THEN call.answer.model_info ELSE NULL

(* A Register was replied with the version the backend wrote, then a       *)
(* forced Delete with the error code the backend returned.                 *)
C16_Witness ==
  /\ Len(responses) = 2
  /\ requests[1].method = "Register" /\ responses[1].status = 0
  /\ responses[1].version = svcdb_calls[1].answer.version
  /\ svcdb_calls[1].answer.wrote
  /\ requests[2].method = "Delete" /\ requests[2].force
  /\ responses[2].status = -22

----------------------------------------------------------------------------
(* The callback of the method's signal is attached. *)
Attached(method) ==
  \E k \in 1..Len(handler_id) :
    /\ k <= Len(handler_infos)
    /\ handler_infos[k].signal_name = SignalOf(method)
    /\ handler_id[k] > 0

(* probe_model_module has returned 0 and exit was not called since. *)
ProbeSucceeded ==
  /\ hooks # <<>> /\ hooks[1] = "probe"
  /\ dpc \notin {"probe_connect", "probe_export"}
  /\ probe_ret = 0
  /\ state \in {"Probed", "Active"}

SevenOperations ==
  {"Register", "UpdateDescription", "Activate", "Get", "GetActivated", "GetAll",
   "Delete"}
NineOperations == SevenOperations \cup {"SetPipelineDescription", "AddResource"}

(* C17 as claimed: after a successful probe a handler is attached for each *)
(* of the nine operations.                                                 *)
C17_Original == ProbeSucceeded => \A m \in NineOperations : Attached(m)

(* C17: after a successful probe a handler is attached for each of the     *)
(* seven operations Register, UpdateDescription, Activate, Get,            *)
(* GetActivated, GetAll and Delete, the table has no other entry, and no   *)
(* handler is attached for SetPipelineDescription or AddResource.          *)
C17_SevenHandlers ==
  ProbeSucceeded
  => /\ \A m \in SevenOperations : Attached(m)
     /\ \A m \in NineOperations \ SevenOperations : ~Attached(m)
     /\ Len(handler_id) = Cardinality(SevenOperations)
     /\ \A k \in 1..Len(handler_id) : handler_id[k] > 0

(* The probe has succeeded and the module serves requests. *)
C17_Witness ==
  /\ ProbeSucceeded
  /\ state = "Active"
  /\ Attached("Delete")
  /\ Len(responses) = 1

----------------------------------------------------------------------------
ProbeReturned ==
  /\ hooks # <<>> /\ hooks[1] = "probe"
  /\ dpc \notin {"probe_connect", "probe_export"}

Made(call) == \E j \in 1..Len(glib_calls) : glib_calls[j] = call
Count(call) == Cardinality({j \in 1..Len(glib_calls) : glib_calls[j] = call})

Acquired == Made(<<"probe", "machinelearning_service_model_skeleton_new", 0, TRUE>>)
AllAttached ==
  \A k \in 1..Len(handler_id) : Made(<<"probe", "g_signal_connect", k, TRUE>>)
Exported == Made(<<"probe", "gdbus_export_interface", 0, TRUE>>)

NothingHeld ==
  /\ \A k \in 1..Len(handler_id) : handler_id[k] = 0
  /\ g_gdbus_instance = NullInstance

(* C18: once probe has returned, its result is 0 exactly when the instance *)
(* was acquired, every handler of the table was attached and the interface *)
(* was exported; otherwise the result is -ENOSYS whichever step failed,    *)
(* every handler probe attached has been detached, the instance it got has *)
(* been released, no handler id is set and the module-wide instance is     *)
(* NULL. After a success all handlers are attached to the exported object. *)
C18_ProbeAllOrNothing ==
  ProbeReturned
  => /\ (probe_ret = 0) <=> (Acquired /\ AllAttached /\ Exported)
     /\ probe_ret # 0
          => /\ probe_ret = -ENOSYS
             /\ NothingHeld
             /\ state # "Probed" /\ state # "Active"
             /\ \A k \in 1..Len(handler_id) :
                  Count(<<"probe", "g_signal_connect", k, TRUE>>)
                    = Count(<<"probe", "g_signal_handler_disconnect", k, TRUE>>)
             /\ Acquired <=> Made(<<"probe", "g_object_unref", 0, TRUE>>)
     /\ ProbeSucceeded
          => /\ \A k \in 1..Len(handler_id) : handler_id[k] > 0
             /\ g_gdbus_instance = Skeleton(TRUE)

(* Every handler was attached and then the export failed. *)
C18_Witness ==
  /\ ProbeReturned
  /\ AllAttached
  /\ Made(<<"probe", "gdbus_export_interface", 0, FALSE>>)
  /\ probe_ret = -ENOSYS
  /\ hooks = <<"probe">>

----------------------------------------------------------------------------
Exited == state = "TornDown"

ExitCalls == SelectSeq(glib_calls, LAMBDA c : c[1] = "exit")

(* What exit has to undo: everything after a successful probe, else nothing. *)
ExitExpected ==
  IF hooks # <<>> /\ hooks[1] = "probe" /\ probe_ret = 0
    THEN [k \in 1..Cardinality(SevenOperations) |->
            <<"exit", "g_signal_handler_disconnect", k, TRUE>>]
           \o <<<<"exit", "g_object_unref", 0, TRUE>>>>
    ELSE <<>>

(* C19: exit can be called before probe, after a failed probe, and after a *)
(* successful one with or without init; it then detaches each attached     *)
(* handler once and releases the instance once, or does neither when there *)
(* is nothing attached and no instance; afterwards no handler id is set    *)
(* and the module-wide instance is NULL.                                   *)
C19_ExitSafeEverywhere ==
  /\ (dpc = "loop" /\ ~Exited) => ENABLED exit_model_module
  /\ Exited
       => /\ NothingHeld
          /\ ExitCalls = ExitExpected
          /\ hooks[Len(hooks)] = "exit"

(* exit was called after a probe that had failed. *)
C19_Witness ==
  /\ Exited
  /\ hooks = <<"probe", "exit">>
  /\ probe_ret = -ENOSYS
  /\ ExitCalls = <<>>

----------------------------------------------------------------------------
(* The positions in env_calls of the calls of fn with this answer. *)
EnvCallsOf(fn, answer) ==
  {j \in 1..Len(env_calls) : env_calls[j] = <<fn, answer>>}

HandleObtained == EnvCallsOf("pkgmgrinfo_pkginfo_get_pkginfo", "PMINFO_R_OK") # {}
Destroys == EnvCallsOf("pkgmgrinfo_pkginfo_destroy_pkginfo", "void")

(* The functions that are given the handle. *)
HandleUsers ==
  {"pkgmgrinfo_pkginfo_get_type", "pkgmgrinfo_pkginfo_get_root_path",
   "pkgmgrinfo_pkginfo_get_res_type", "pkgmgrinfo_pkginfo_get_res_version"}

(* The way INSTALL went once it had the handle. *)
InstallPath ==
  IF ~HandleObtained THEN "no handle"
  ELSE IF FailedQuery # 0 THEN env_calls[FailedQuery][1]
  ELSE IF pkg_type # NULL /\ pkg_type # S_rpk THEN "not rpk"
  ELSE IF json_file # NULL /\ ~config_ret THEN "parse failure"
  ELSE "success"

(* C21: the handle is destroyed only by an INSTALL that obtained it, never  *)
(* before INSTALL returns and never twice; when INSTALL has returned, the  *)
(* handle was destroyed exactly once if it was obtained, whichever way     *)
(* INSTALL went (failed type, not an rpk, failed root path, resource type  *)
(* or resource version, failed parse, success), as the last thing INSTALL  *)
(* did, and not at all if it was not obtained.                             *)
C21_HandleDestroyedOnce ==
  /\ Cardinality(Destroys) <= 1
  /\ Destroys # {} => HandleObtained /\ pc = "returned"
  /\ handle = (IF Destroys # {} THEN "destroyed"
               ELSE IF HandleObtained THEN "open" ELSE "none")
  /\ \A d \in Destroys :
       /\ d = Len(env_calls)
       /\ \A j \in 1..Len(env_calls) : env_calls[j][1] \in HandleUsers => j < d
  /\ pc = "returned"
       => /\ Cardinality(Destroys) = (IF HandleObtained THEN 1 ELSE 0)
          /\ InstallPath
               \in {"no handle", "not rpk", "parse failure", "success"} \cup HandleUsers

(* INSTALL has returned the failure of the parse, which had issued backend *)
(* calls, and has destroyed the handle it had obtained.                    *)
C21_Witness ==
  /\ pc = "returned"
  /\ InstallPath = "parse failure"
  /\ calls # <<>>
  /\ install_ret = -1
  /\ handle = "destroyed"
  /\ Cardinality(Destroys) = 1

----------------------------------------------------------------------------
(* The positions in glib_calls of the calls probe made of fn. *)
ProbeCalls(fn) ==
  {j \in 1..Len(glib_calls) : glib_calls[j][1] = "probe" /\ glib_calls[j][2] = fn}

ExportAttempts == ProbeCalls("gdbus_export_interface")
FailedAttachments == {j \in ProbeCalls("g_signal_connect") : ~glib_calls[j][4]}

(* Before position e, probe attached the k-th handler and did not detach it. *)
AttachedBefore(k, e) ==
  /\ \E j \in ProbeCalls("g_signal_connect") :
       j < e /\ glib_calls[j][3] = k /\ glib_calls[j][4]
  /\ \A j \in ProbeCalls("g_signal_handler_disconnect") :
       glib_calls[j][3] = k => j > e

(* C22: probe attempts the export at most once, and only after it attached *)
(* every handler of the table and detached none; after a failed attachment *)
(* it attempts none; and whenever the instance is exported, during probe   *)
(* and until exit, every entry of the table has its handler attached.      *)
C22_ExportAfterAllAttached ==
  /\ Cardinality(ExportAttempts) <= 1
  /\ \A e \in ExportAttempts :
       \A k \in 1..Len(handler_infos) : AttachedBefore(k, e)
  /\ FailedAttachments # {} => ExportAttempts = {}
  /\ dpc = "probe_export"
       => /\ FailedAttachments = {}
          /\ \A k \in 1..Len(handler_id) : handler_id[k] > 0
  /\ g_gdbus_instance.exported
       => /\ Len(handler_id) = Len(handler_infos)
          /\ \A k \in 1..Len(handler_id) : handler_id[k] > 0

(* probe is about to export the interface, all handlers being attached. *)
C22_Witness ==
  /\ dpc = "probe_export"
  /\ hooks = <<"probe">>
  /\ Cardinality(ProbeCalls("g_signal_connect")) = Len(handler_infos)
  /\ ExportAttempts = {}
  /\ ~g_gdbus_instance.exported

====
